---------------------------- MODULE Spec2Model ----------------------------
(***************************************************************************)
(* A model of the field-extraction core of sportsreference:                *)
(*   - nba/schedule.py : Game, Schedule (collection builder, date lookup)  *)
(*   - nhl/boxscore.py : Boxscore (record builder, typed accessors),       *)
(*                       Boxscores (daily listing)                         *)
(* Text is modelled as a sequence of tokens (single characters, and the    *)
(* multi-character markers the regular expressions look for), so that      *)
(* parsing (strptime, int(), re.sub, str.split) is computed, not assumed.  *)
(***************************************************************************)
EXTENDS Integers, Sequences, FiniteSets, TLC

VARIABLES
    doc,        \* the schedule page handed to Schedule._pull_schedule
    games,      \* Schedule._games
    spc,        \* position of the schedule scenario: "new", "built"
    sres,       \* outcome of the last read operation on the Schedule
    uri,        \* the uri argument of Boxscore(uri)
    fetch,      \* outcome of pq(url) for a Boxscore: "raises", "empty", "page"
    page,       \* the boxscore page when one is retrieved
    config,     \* BOXSCORE_ELEMENT_INDEX, the configured positional indexes
    box,        \* the Boxscore instance's __dict__ (raw fields)
    bpc,        \* position of the boxscore scenario: "new", "built", "raised"
    bres,       \* outcome of the last accessor read on the Boxscore
    markup,     \* link markup handed to the boxscore-URI handlers
    ures,       \* outcome of the boxscore-URI handlers
    game_data,  \* the schedule row handed to Game(game_data)
    game,       \* the Game instance's __dict__ (raw fields)
    gpc,        \* position of the game scenario: "new", "built", "raised"
    gres,       \* outcome of the last accessor read on the Game
    listing,    \* outcome of pq(url) for Boxscores(date): None when it raises
    boxscores,  \* Boxscores._boxscores['boxscores']
    lpc,        \* position of the listing scenario: "new", "built", "raised"
    lres,       \* outcome of Boxscores(date)
    requests    \* the external document fetches (pq(url) calls) each query
                \* has made so far

vars ==
    <<doc, games, spc, sres, uri, fetch, page, config, box, bpc, bres, markup,
      ures, game_data, game, gpc, gres, listing, boxscores, lpc, lres, requests>>

schedVars == <<doc, games, spc, sres>>
boxVars == <<uri, fetch, page, config, box, bpc, bres>>
uriVars == <<markup, ures>>
gameVars == <<game_data, game, gpc, gres>>
listVars == <<listing, boxscores, lpc, lres>>

-----------------------------------------------------------------------------
(* Bounds of the model. *)

MaxRegular == 2
MaxPlayoff == 2
MaxPrefix == 1
MaxId == 2
MaxSuffix == 2
MaxInfoLines == 3
MaxCells == 3
MaxSkaters == 3
MaxGoalies == 1
MaxAttendanceChars == 5
MaxGames == 2
MaxDurationIndex == 4

-----------------------------------------------------------------------------
(* Python values held in raw fields, tagged with their type, and the        *)
(* outcome of an operation: a returned value or a raised exception.         *)

PyNone == [t |-> "None"]
PyStr(s) == [t |-> "str", v |-> s]
PyList(l) == [t |-> "list", v |-> l]
PyInt(n) == [t |-> "int", v |-> n]

NoResult == [kind |-> "none", op |-> "none"]

\* No query has fetched anything yet.
NoRequests == [schedule |-> <<>>, boxscore |-> <<>>, boxscores |-> <<>>]

Raise(exc, msg) == [kind |-> "raise", exc |-> exc, msg |-> msg]
Return(v) == [kind |-> "return", value |-> v]

-----------------------------------------------------------------------------
(* Text helpers: a text is a sequence of tokens. *)

DigitChars == <<"0", "1", "2", "3", "4", "5", "6", "7", "8", "9">>

IsDigit(c) == \E i \in 1..Len(DigitChars) : DigitChars[i] = c

DigitValue(c) == (CHOOSE i \in 1..Len(DigitChars) : DigitChars[i] = c) - 1

AllDigits(s) == \A i \in 1..Len(s) : IsDigit(s[i])

RECURSIVE DecimalValue(_)
DecimalValue(s) ==
    IF s = <<>> THEN 0
    ELSE DecimalValue(SubSeq(s, 1, Len(s) - 1)) * 10 + DigitValue(s[Len(s)])

\* str.split(sep) for a one-character separator: always at least one part.
RECURSIVE Split(_, _)
Split(s, sep) ==
    IF \A i \in 1..Len(s) : s[i] # sep THEN <<s>>
    ELSE LET k == CHOOSE i \in 1..Len(s) :
                      s[i] = sep /\ \A j \in 1..(i - 1) : s[j] # sep
         IN  <<SubSeq(s, 1, k - 1)>> \o Split(SubSeq(s, k + 1, Len(s)), sep)

SeqsUpTo(S, n) == UNION {[1..k -> S] : k \in 0..n}

-----------------------------------------------------------------------------
(* Boxscore-URI extraction (nba/schedule.py Game._parse_boxscore and        *)
(* nhl/boxscore.py Boxscores._get_boxscore_uri).  The markers '/boxscores/'  *)
(* and '.html' are single tokens of the text; "\n" is the newline that '.'  *)
(* of a regular expression does not match.                                  *)

BoxscoresMarker == "/boxscores/"
HtmlMarker == ".html"
Newline == "\n"
Whitespace == {" ", Newline}

Has(s, tok) == \E i \in 1..Len(s) : s[i] = tok

RECURSIVE Join(_, _)
Join(parts, sep) ==
    IF Len(parts) = 0 THEN <<>>
    ELSE IF Len(parts) = 1 THEN parts[1]
    ELSE parts[1] \o <<sep>> \o Join(Tail(parts), sep)

\* The part of a line after the last occurrence of a token (the line itself
\* when it has none): re.sub(r'.*<token>', '', line), whose '.*' is greedy.
AfterLast(line, tok) ==
    IF ~Has(line, tok) THEN line
    ELSE LET k == CHOOSE i \in 1..Len(line) :
                      /\ line[i] = tok
                      /\ \A j \in (i + 1)..Len(line) : line[j] # tok
         IN  SubSeq(line, k + 1, Len(line))

\* The part of a line before the first occurrence of a token (the line
\* itself when it has none): re.sub(r'<token>.*', '', line).
BeforeFirst(line, tok) ==
    IF ~Has(line, tok) THEN line
    ELSE LET k == CHOOSE i \in 1..Len(line) :
                      /\ line[i] = tok
                      /\ \A j \in 1..(i - 1) : line[j] # tok
         IN  SubSeq(line, 1, k - 1)

\* One line under re.sub(r'.*/boxscores/', '', line)
DropThroughLastBoxscores(line) == AfterLast(line, BoxscoresMarker)

\* One line under re.sub(r'\.html.*', '', line)
DropFromFirstHtml(line) == BeforeFirst(line, HtmlMarker)

\* '.' does not match a newline, and re.sub replaces every match: each line
\* of the text is rewritten on its own and the newlines stay.
SubBoxscoresPrefix(s) ==
    LET ls == Split(s, Newline)
    IN  Join([i \in 1..Len(ls) |-> DropThroughLastBoxscores(ls[i])], Newline)

SubHtmlSuffix(s) ==
    LET ls == Split(s, Newline)
    IN  Join([i \in 1..Len(ls) |-> DropFromFirstHtml(ls[i])], Newline)

RECURSIVE LStrip(_)
LStrip(s) ==
    IF s # <<>> /\ s[1] \in Whitespace THEN LStrip(Tail(s)) ELSE s

RECURSIVE RStrip(_)
RStrip(s) ==
    IF s # <<>> /\ s[Len(s)] \in Whitespace
    THEN RStrip(SubSeq(s, 1, Len(s) - 1)) ELSE s

Strip(s) == LStrip(RStrip(s))

\* Link markup of the form <prefix>/boxscores/<ID>.html<suffix>.
NoMarkup == [prefix |-> <<>>, id |-> <<>>, suffix |-> <<>>]

MarkupText(m) ==
    m.prefix \o <<BoxscoresMarker>> \o m.id \o <<HtmlMarker>> \o m.suffix

\* Game._parse_boxscore: the value stored in _boxscore for the cell markup.
Game_parse_boxscore_NoPrefixSub(m) == SubHtmlSuffix(m)
Game_parse_boxscore(m) == SubHtmlSuffix(SubBoxscoresPrefix(m))

\* Boxscores._get_boxscore_uri: the same two substitutions, then strip().
Boxscores_get_boxscore_uri(m) == Strip(SubHtmlSuffix(SubBoxscoresPrefix(m)))

-----------------------------------------------------------------------------
(* utils._parse_field (the Field Extractor): the texts of the items the     *)
(* field's selector matches, then the item at the index.                    *)

ParseField(items, index) ==
    IF Len(items) = 0 THEN Return(<<>>)
    ELSE IF index + 1 > Len(items)
         THEN Raise("IndexError", "list index out of range")
         ELSE Return(items[index + 1])

-----------------------------------------------------------------------------
(* datetime.strptime(text, '%Y-%m-%d') as Game.datetime uses it.            *)

IsLeap(y) == (y % 4 = 0 /\ y % 100 # 0) \/ y % 400 = 0

DaysInMonth(y, m) ==
    IF m = 2 THEN (IF IsLeap(y) THEN 29 ELSE 28)
    ELSE IF m \in {4, 6, 9, 11} THEN 30 ELSE 31

StrptimeError == Raise("ValueError", "time data does not match format")

Strptime(text) ==
    LET parts == Split(text, "-")
    IN  IF Len(parts) # 3 THEN StrptimeError
        ELSE LET ys == parts[1]
                 ms == parts[2]
                 ds == IF Len(parts[3]) = 2 /\ parts[3][1] = " "
                       THEN Tail(parts[3]) ELSE parts[3]
             IN  IF \/ Len(ys) # 4 \/ ~AllDigits(ys)
                    \/ Len(ms) \notin {1, 2} \/ ~AllDigits(ms)
                    \/ Len(ds) \notin {1, 2} \/ ~AllDigits(ds)
                 THEN StrptimeError
                 ELSE LET y == DecimalValue(ys)
                          m == DecimalValue(ms)
                          d == DecimalValue(ds)
                      IN  IF y < 1 \/ m \notin 1..12 \/ d < 1
                             \/ d > DaysInMonth(y, m)
                          THEN StrptimeError
                          ELSE Return([year |-> y, month |-> m, day |-> d,
                                       hour |-> 0])

-----------------------------------------------------------------------------
(* nba/schedule.py: Game.                                                   *)

\* A schedule row: the class marker its markup carries, the texts matched
\* by the 'date' selector and the markup of its boxscore cell.
HeaderClasses == {"thead", "over_header thead"}

\* Game.__init__ / Game._parse_game_data: every field but datetime and
\* boxscore is what utils._parse_field returns for it.
Game(row) ==
    [_date |-> PyStr(ParseField(row.date, 0).value),
     _datetime |-> PyNone,
     _boxscore |-> PyStr(Game_parse_boxscore(row.box)),
     _location |-> PyStr(ParseField(row.location, 0).value),
     _result |-> PyStr(ParseField(row.result, 0).value)]

\* Game.datetime
Game_datetime(g) == Strptime(g._date.v)

-----------------------------------------------------------------------------
(* nba/schedule.py: Schedule.                                               *)

\* The test of _add_games_to_schedule on str(item).
IsHeaderRow_TheadOnly(row) == row.cls = "thead"
IsHeaderRow(row) == row.cls = "thead" \/ row.cls = "over_header thead"

\* Schedule._add_games_to_schedule: the games list after the loop.
RECURSIVE AddGamesToSchedule(_, _)
AddGamesToSchedule(gs, rows) ==
    IF rows = <<>> THEN gs
    ELSE IF IsHeaderRow(Head(rows))
         THEN AddGamesToSchedule(gs, Tail(rows))
         ELSE AddGamesToSchedule(Append(gs, Game(Head(rows))), Tail(rows))

\* utils._get_stats_table(doc, selector): the rows of the selected table.
GetStatsTable(d, selector) ==
    IF selector = "table#tgl_basic" THEN d.regular ELSE d.playoffs

\* 'tgl_basic_playoffs' in str(doc)
HasPlayoffMarker(d) == d.marker

\* Schedule._pull_schedule: the games list it leaves in self._games.
PullScheduleGames_PlayoffsFirst(d) ==
    LET playoffs == IF HasPlayoffMarker(d)
                    THEN AddGamesToSchedule(<<>>,
                             GetStatsTable(d, "div#all_tgl_basic_playoffs"))
                    ELSE <<>>
    IN  AddGamesToSchedule(playoffs, GetStatsTable(d, "table#tgl_basic"))

PullScheduleGames(d) ==
    LET regular == AddGamesToSchedule(<<>>, GetStatsTable(d, "table#tgl_basic"))
    IN  IF HasPlayoffMarker(d)
        THEN AddGamesToSchedule(regular,
                 GetStatsTable(d, "div#all_tgl_basic_playoffs"))
        ELSE regular

\* The pq(url) calls of Schedule._pull_schedule: the page is fetched once and
\* both tables are read from it.
SCHEDULE_URL == "SCHEDULE_URL"

PullScheduleRequests_PlayoffRefetch(d) ==
    IF HasPlayoffMarker(d) THEN <<SCHEDULE_URL, SCHEDULE_URL>>
    ELSE <<SCHEDULE_URL>>

PullScheduleRequests(d) == <<SCHEDULE_URL>>

NotFound == Raise("ValueError", "No games found for requested date")

SameDay(dt, date) ==
    dt.year = date.year /\ dt.month = date.month /\ dt.day = date.day

\* Schedule.__call__: the loop from position i on.
RECURSIVE CallFrom(_, _, _)
CallFrom(gs, date, i) ==
    IF i > Len(gs) THEN NotFound
    ELSE LET dt == Game_datetime(gs[i])
         IN  IF dt.kind = "raise" THEN dt
             ELSE IF SameDay(dt.value, date)
                  THEN [kind |-> "return", value |-> gs[i], index |-> i]
                  ELSE CallFrom(gs, date, i + 1)

Schedule_call(gs, date) == CallFrom(gs, date, 1)

\* Schedule.__getitem__: Python list indexing, negative indices included.
Schedule_getitem_FromEnd(gs, index) ==
    IF index >= 0 /\ index < Len(gs) THEN Return(gs[Len(gs) - index])
    ELSE IF index < 0 /\ index >= 0 - Len(gs)
         THEN Return(gs[Len(gs) + index + 1])
         ELSE Raise("IndexError", "list index out of range")

Schedule_getitem(gs, index) ==
    IF index >= 0 /\ index < Len(gs) THEN Return(gs[index + 1])
    ELSE IF index < 0 /\ index >= 0 - Len(gs)
         THEN Return(gs[Len(gs) + index + 1])
         ELSE Raise("IndexError", "list index out of range")

\* Schedule.__repr__, __iter__, __len__
Schedule_repr(gs) == gs
Schedule_iter(gs) == Schedule_repr(gs)
Schedule_len(gs) == Len(Schedule_repr(gs))

-----------------------------------------------------------------------------
(* nhl/boxscore.py: Boxscore, the record builder.                           *)

\* The attributes Boxscore.__init__ declares, in declaration order (the
\* order in which _parse_game_data walks self.__dict__).
DeclaredFields ==
    <<"uri", "date", "time", "arena", "attendance", "duration",
      "away_name", "home_name", "winner", "winning_name", "winning_abbr",
      "losing_name", "losing_abbr",
      "away_goals", "away_assists", "away_points",
      "away_penalties_in_minutes", "away_even_strength_goals",
      "away_power_play_goals", "away_short_handed_goals",
      "away_game_winning_goals", "away_even_strength_assists",
      "away_power_play_assists", "away_short_handed_assists",
      "away_shots_on_goal", "away_shooting_percentage", "away_saves",
      "away_save_percentage", "away_shutout",
      "home_goals", "home_assists", "home_points",
      "home_penalties_in_minutes", "home_even_strength_goals",
      "home_power_play_goals", "home_short_handed_goals",
      "home_game_winning_goals", "home_even_strength_assists",
      "home_power_play_assists", "home_short_handed_assists",
      "home_shots_on_goal", "home_shooting_percentage", "home_saves",
      "home_save_percentage", "home_shutout">>

DeclaredFieldSet == {DeclaredFields[i] : i \in 1..Len(DeclaredFields)}

\* The attributes _parse_game_data adds after the field loop.
CountAttributes == {"away_skaters", "away_goalies"}

\* An attribute the instance does not have (reading it is an AttributeError).
Unset == [t |-> "unset"]

\* The fields the loop passes over with `continue`.
SkippedFields_WithoutUri ==
    {"winner", "winning_name", "winning_abbr", "losing_name", "losing_abbr"}

SkippedFields ==
    {"winner", "winning_name", "winning_abbr", "losing_name", "losing_abbr",
     "uri"}

DateLocationFields == {"date", "time", "arena", "attendance", "duration"}

NameFields == {"away_name", "home_name"}

fields_to_special_parse ==
    {"away_even_strength_assists", "away_power_play_assists",
     "away_short_handed_assists", "away_game_winning_goals", "away_saves",
     "away_save_percentage", "away_shutout",
     "home_even_strength_assists", "home_power_play_assists",
     "home_short_handed_assists", "home_game_winning_goals", "home_saves",
     "home_save_percentage", "home_shutout"}

\* Boxscore.__init__ before _parse_game_data runs.
NewBoxscore(u) ==
    [f \in DeclaredFieldSet \cup CountAttributes |->
        IF f = "uri" THEN PyStr(u)
        ELSE IF f \in CountAttributes THEN Unset ELSE PyNone]

\* A document in which no selector matches anything.
EmptyPage ==
    [t |-> "page", empty |-> TRUE,
     items |-> [f \in DeclaredFieldSet |-> <<>>],
     tags |-> [f \in NameFields |-> PyNone],
     away_skaters |-> 0, away_goalies |-> <<>>]

\* Boxscore._retrieve_html_page: None when pq(url) raises, else the page
\* with its comment tags removed (which may be an empty document).
RetrieveHtmlPage(f, p) ==
    IF f = "raises" THEN PyNone
    ELSE IF f = "empty" THEN EmptyPage
    ELSE p

\* The pq(url) calls of Boxscore._retrieve_html_page: one, whether or not it
\* raises; the second pq() parses the text of the fetched document.
BOXSCORE_URL == "BOXSCORE_URL"

RetrieveHtmlPageRequests(u) == <<BOXSCORE_URL>>

\* 'if not boxscore' in _parse_game_data
IsFalsy_NoneOnly(b) == b.t = "None"
IsFalsy(b) == b.t = "None" \/ (b.t = "page" /\ b.empty)

\* The seven playoff-round labels tested on line 1 of the information block.
RoundLabels ==
    {"eastern first round", "western first round", "eastern second round",
     "western second round", "eastern conference finals",
     "western conference finals", "stanley cup final"}

\* str.lower() on the tokens an information block is made of.
LowerToken(tok) ==
    CASE tok = "Eastern First Round" -> "eastern first round"
      [] tok = "Western First Round" -> "western first round"
      [] tok = "Eastern Second Round" -> "eastern second round"
      [] tok = "Western Second Round" -> "western second round"
      [] tok = "Eastern Conference Finals" -> "eastern conference finals"
      [] tok = "Western Conference Finals" -> "western conference finals"
      [] tok = "Stanley Cup Final" -> "stanley cup final"
      [] tok = "STANLEY CUP FINAL" -> "stanley cup final"
      [] tok = "L" -> "l"
      [] tok = "W" -> "w"
      [] tok = "H" -> "h"
      [] tok = "N" -> "n"
      [] tok = "T" -> "t"
      [] tok = "O" -> "o"
      [] OTHER -> tok

\* '<label>' in game_info[1].lower(), for any of the seven labels
HasRoundLabel(line) == \E i \in 1..Len(line) : LowerToken(line[i]) \in RoundLabels

\* Boxscore._parse_game_date_and_location: the index it reads for a field.
DateLocationIndex_ShiftAll(field, idx, game_info) ==
    IF HasRoundLabel(game_info[2]) THEN idx[field] + 1 ELSE idx[field]

DateLocationIndex(field, idx, game_info) ==
    IF HasRoundLabel(game_info[2]) /\ field # "date" /\ field # "time"
    THEN idx[field] + 1
    ELSE idx[field]

\* Boxscore._parse_game_date_and_location(field, boxscore)
ParseGameDateAndLocation_Propagate(field, p, idx) ==
    LET items == p.items[field]
    IN  IF Len(items) = 0 THEN Raise("IndexError", "list index out of range")
        ELSE LET game_info == Split(items[1], Newline)
             IN  IF Len(game_info) < 2
                 THEN Raise("IndexError", "list index out of range")
                 ELSE LET index == DateLocationIndex(field, idx, game_info)
                      IN  IF index + 1 > Len(game_info)
                          THEN Raise("IndexError", "list index out of range")
                          ELSE Return(PyStr(game_info[index + 1]))

ParseGameDateAndLocation(field, p, idx) ==
    LET items == p.items[field]
    IN  IF Len(items) = 0 THEN Raise("IndexError", "list index out of range")
        ELSE LET game_info == Split(items[1], Newline)
             IN  IF Len(game_info) < 2
                 THEN Raise("IndexError", "list index out of range")
                 ELSE LET index == DateLocationIndex(field, idx, game_info)
                      IN  IF index + 1 > Len(game_info)
                          THEN Return(PyStr(<<>>))
                          ELSE Return(PyStr(game_info[index + 1]))

\* Boxscore._parse_name: the matched name tag itself, not its text.
ParseName(field, p) == Return(p.tags[field])

\* What the field loop of _parse_game_data computes for one parsed field.
ParseBoxscoreField(field, p, idx) ==
    IF field \in DateLocationFields THEN ParseGameDateAndLocation(field, p, idx)
    ELSE IF field \in NameFields THEN ParseName(field, p)
    ELSE IF field \in fields_to_special_parse
         THEN Return(PyList(p.items[field]))
         ELSE LET index == IF field \in DOMAIN idx THEN idx[field] ELSE 0
                  value == ParseField(p.items[field], index)
              IN  IF value.kind = "raise" THEN value
                  ELSE Return(PyStr(value.value))

\* The two counts taken after the field loop; next() on the exhausted
\* iterator of goalie tables raises StopIteration.
ParseCounts(p) ==
    IF Len(p.away_goalies) < 2 THEN Raise("StopIteration", "")
    ELSE Return([away_skaters |-> PyInt(p.away_skaters),
                 away_goalies |-> PyInt(p.away_goalies[2])])

\* Boxscore.__init__(uri): the instance it returns, or the exception that
\* leaves no instance.
BuildBoxscore(u, f, p, idx) ==
    LET boxscore == RetrieveHtmlPage(f, p)
        fresh == NewBoxscore(u)
    IN  IF IsFalsy(boxscore) THEN Return(fresh)
        ELSE LET parsed == {i \in 1..Len(DeclaredFields) :
                               DeclaredFields[i] \notin SkippedFields}
                 failing == {i \in parsed :
                     ParseBoxscoreField(DeclaredFields[i], boxscore, idx).kind
                         = "raise"}
             IN  IF failing # {}
                 THEN ParseBoxscoreField(
                          DeclaredFields[CHOOSE i \in failing :
                                             \A j \in failing : i <= j],
                          boxscore, idx)
                 ELSE LET counts == ParseCounts(boxscore)
                      IN  IF counts.kind = "raise" THEN counts
                          ELSE Return(
                              [a \in DeclaredFieldSet \cup CountAttributes |->
                                  IF a \in SkippedFields THEN fresh[a]
                                  ELSE IF a \in CountAttributes
                                       THEN counts.value[a]
                                       ELSE ParseBoxscoreField(a, boxscore,
                                                               idx).value])

-----------------------------------------------------------------------------
(* nhl/boxscore.py: the typed accessors of a Boxscore.                      *)

HOME == "Home"
AWAY == "Away"

PyFloat(milli) == [t |-> "float", milli |-> milli]

AttributeError == Raise("AttributeError", "'NoneType' object has no attribute")
TypeError == Raise("TypeError", "unsupported operand of NoneType")

\* int(text): surrounding whitespace is ignored, then an optional sign and
\* at least one digit; anything else is a ValueError.
ParseInt(text) ==
    LET t == Strip(text)
        signed == t # <<>> /\ t[1] \in {"-", "+"}
        digits == IF signed THEN Tail(t) ELSE t
    IN  IF digits = <<>> \/ ~AllDigits(digits)
        THEN Raise("ValueError", "invalid literal for int()")
        ELSE Return(IF signed /\ t[1] = "-"
                    THEN 0 - DecimalValue(digits) ELSE DecimalValue(digits))

\* float(text) for the decimal texts of a boxscore page, in thousandths.
ParseFloat(text) ==
    LET parts == Split(Strip(text), ".")
        whole == parts[1]
        frac == IF Len(parts) = 2 THEN parts[2] ELSE <<>>
    IN  IF \/ Len(parts) > 2 \/ ~AllDigits(whole) \/ ~AllDigits(frac)
           \/ (whole = <<>> /\ frac = <<>>) \/ Len(frac) > 3
        THEN Raise("ValueError", "could not convert string to float")
        ELSE Return(DecimalValue(whole) * 1000
                    + DecimalValue(frac \o [i \in 1..(3 - Len(frac)) |-> "0"]))

\* decorators.int_property_decorator applied to the value func returns.
IntProperty(value) ==
    IF value.t # "str" THEN Return(PyNone)
    ELSE LET n == ParseInt(value.v)
         IN  IF n.kind = "raise" THEN Return(PyNone) ELSE Return(PyInt(n.value))

\* decorators.float_property_decorator applied to the value func returns.
FloatProperty(value) ==
    IF value.t # "str" THEN Return(PyNone)
    ELSE LET x == ParseFloat(value.v)
         IN  IF x.kind = "raise" THEN Return(PyNone)
             ELSE Return(PyFloat(x.value))

\* The accessors wrapped by nhl_int_property_decorator.
AggregatedAccessors ==
    {"away_game_winning_goals", "away_even_strength_assists",
     "away_power_play_assists", "away_short_handed_assists", "away_saves",
     "away_shutout",
     "home_game_winning_goals", "home_even_strength_assists",
     "home_power_play_assists", "home_short_handed_assists", "home_saves",
     "home_shutout"}

\* func.__name__ in ['away_saves', 'away_shutout', 'home_saves',
\* 'home_shutout']
GoalieAccessors == {"away_saves", "away_shutout", "home_saves", "home_shutout"}

\* 'home' in func.__name__
NameHasHome(name) ==
    name \in {"home_game_winning_goals", "home_even_strength_assists",
              "home_power_play_assists", "home_short_handed_assists",
              "home_saves", "home_shutout", "home_goals", "home_assists",
              "home_points", "home_penalties_in_minutes",
              "home_even_strength_goals", "home_power_play_goals",
              "home_short_handed_goals", "home_shots_on_goal",
              "home_shooting_percentage", "home_save_percentage",
              "home_name"}

\* The loop of nhl_int_property_decorator: int(x) added for every cell that
\* parses, ValueError skipped.
RECURSIVE SumCells_CountUnparsed(_)
SumCells_CountUnparsed(cells) ==
    IF cells = <<>> THEN 0
    ELSE (IF ParseInt(Head(cells)).kind = "raise" THEN 1
          ELSE ParseInt(Head(cells)).value)
         + SumCells_CountUnparsed(Tail(cells))

RECURSIVE SumCells(_)
SumCells(cells) ==
    IF cells = <<>> THEN 0
    ELSE (IF ParseInt(Head(cells)).kind = "raise" THEN 0
          ELSE ParseInt(Head(cells)).value)
         + SumCells(Tail(cells))

\* value[:index] and value[index:] for a list and an index >= 0
SliceTo(value, index) ==
    SubSeq(value, 1, IF index < Len(value) THEN index ELSE Len(value))
SliceFrom_SkipsOne(value, index) == SubSeq(value, index + 2, Len(value))
SliceFrom(value, index) == SubSeq(value, index + 1, Len(value))

\* value_subset of nhl_int_property_decorator
ValueSubset(name, value, index) ==
    IF NameHasHome(name) THEN SliceFrom(value, index) ELSE SliceTo(value, index)

\* index of nhl_int_property_decorator
SplitIndex_SkatersOnly(name, num_skaters, num_goalies) == num_skaters

SplitIndex(name, num_skaters, num_goalies) ==
    IF name \in GoalieAccessors THEN num_goalies ELSE num_skaters

\* nhl_int_property_decorator's wrapper on an instance b, for accessor name
NhlIntProperty(b, name) ==
    IF b["away_skaters"].t = "unset" \/ b["away_goalies"].t = "unset"
    THEN AttributeError
    ELSE IF b[name].t # "list" THEN TypeError
    ELSE Return(PyInt(SumCells(ValueSubset(name, b[name].v,
                    SplitIndex(name, b["away_skaters"].v,
                               b["away_goalies"].v)))))

\* str.replace(token, '') on a text
RemoveToken(text, tok) == SelectSeq(text, LAMBDA x : x # tok)

\* The plain accessors wrapped by int_property_decorator.
IntAccessors ==
    {"away_goals", "away_assists", "away_points", "away_penalties_in_minutes",
     "away_even_strength_goals", "away_power_play_goals",
     "away_short_handed_goals", "away_shots_on_goal",
     "home_goals", "home_assists", "home_points", "home_penalties_in_minutes",
     "home_even_strength_goals", "home_power_play_goals",
     "home_short_handed_goals", "home_shots_on_goal"}

FloatAccessors == {"away_shooting_percentage", "home_shooting_percentage"}

TextAccessors == {"date", "time", "arena", "duration"}

\* Boxscore.date, time, arena, duration
TextAccessor(b, name) ==
    IF b[name].t # "str" THEN AttributeError
    ELSE LET raw == b[name].v
         IN  CASE name = "date" ->
                    LET parts == Split(raw, ",")
                    IN  Return(PyStr(Join(SubSeq(parts, 1, Len(parts) - 1),
                                          ",")))
               [] name = "time" ->
                    LET parts == Split(raw, ",")
                    IN  Return(PyStr(Strip(parts[Len(parts)])))
               [] name = "arena" -> Return(PyStr(RemoveToken(raw, "Arena: ")))
               [] name = "duration" ->
                    Return(PyStr(RemoveToken(raw, "Game Duration: ")))

\* Boxscore.attendance
Attendance_KeepCommas(b) ==
    IF b["attendance"].t # "str" THEN AttributeError
    ELSE IntProperty(PyStr(RemoveToken(b["attendance"].v, "Attendance: ")))

Attendance(b) ==
    IF b["attendance"].t # "str" THEN AttributeError
    ELSE IntProperty(PyStr(RemoveToken(
             RemoveToken(b["attendance"].v, "Attendance: "), ",")))

\* round(made / opportunity, 3) in thousandths, for made, opportunity >= 0
\* and opportunity > 0; a tie goes to the even thousandth.
RoundedRatio(made, opportunity) ==
    LET q == (made * 1000) \div opportunity
        r == (made * 1000) % opportunity
    IN  IF 2 * r > opportunity \/ (2 * r = opportunity /\ q % 2 = 1)
        THEN q + 1 ELSE q

\* A save percentage over the shots of the side that made the saves.
SavePercentage_SameSide(b, saves, shots) ==
    LET made == NhlIntProperty(b, saves)
        against == IntProperty(b[IF shots = "home_shots_on_goal"
                                 THEN "away_shots_on_goal"
                                 ELSE "home_shots_on_goal"])
    IN  IF made.kind = "raise" THEN made
        ELSE IF against.value.t # "int" THEN TypeError
        ELSE IF against.value.v = 0 THEN Return(PyFloat(0))
        ELSE Return(PyFloat(RoundedRatio(made.value.v, against.value.v)))

\* Boxscore.away_save_percentage / home_save_percentage
SavePercentage(b, saves, shots) ==
    LET made == NhlIntProperty(b, saves)
        against == IntProperty(b[shots])
    IN  IF made.kind = "raise" THEN made
        ELSE IF against.value.t # "int" THEN TypeError
        ELSE IF against.value.v = 0 THEN Return(PyFloat(0))
        ELSE Return(PyFloat(RoundedRatio(made.value.v, against.value.v)))

\* Boxscore.winner: HOME only on strictly more home goals.
Winner_TiesGoHome(b) ==
    LET home == IntProperty(b["home_goals"]).value
        away == IntProperty(b["away_goals"]).value
    IN  IF home.t # "int" \/ away.t # "int" THEN TypeError
        ELSE IF home.v >= away.v THEN Return(HOME) ELSE Return(AWAY)

\* Boxscore.winner
Winner(b) ==
    LET home == IntProperty(b["home_goals"]).value
        away == IntProperty(b["away_goals"]).value
    IN  IF home.t # "int" \/ away.t # "int" THEN TypeError
        ELSE IF home.v > away.v THEN Return(HOME) ELSE Return(AWAY)

\* utils._parse_abbreviation on a name tag
ParseAbbreviation(tag) == BeforeFirst(AfterLast(tag.markup, "/teams/"), "/")

\* Boxscore.winning_name, winning_abbr, losing_name, losing_abbr
TeamAccessor(b, name) ==
    LET w == Winner(b)
    IN  IF w.kind = "raise" THEN w
        ELSE LET winning == name \in {"winning_name", "winning_abbr"}
                 tag == IF (w.value = HOME) = winning
                        THEN b["home_name"] ELSE b["away_name"]
             IN  IF tag.t # "tag" THEN AttributeError
                 ELSE IF name \in {"winning_name", "losing_name"}
                      THEN Return(PyStr(tag.text))
                      ELSE Return(PyStr(ParseAbbreviation(tag)))

TeamAccessors == {"winning_name", "winning_abbr", "losing_name", "losing_abbr"}

Accessors ==
    TextAccessors \cup {"attendance", "winner"} \cup TeamAccessors
        \cup IntAccessors \cup FloatAccessors \cup AggregatedAccessors
        \cup {"away_save_percentage", "home_save_percentage"}

\* Reading the property `name` of the instance b.
Accessor(b, name) ==
    IF name \in TextAccessors THEN TextAccessor(b, name)
    ELSE IF name = "attendance" THEN Attendance(b)
    ELSE IF name = "winner" THEN Winner(b)
    ELSE IF name \in TeamAccessors THEN TeamAccessor(b, name)
    ELSE IF name \in IntAccessors THEN IntProperty(b[name])
    ELSE IF name \in FloatAccessors THEN FloatProperty(b[name])
    ELSE IF name \in AggregatedAccessors THEN NhlIntProperty(b, name)
    ELSE IF name = "away_save_percentage"
         THEN SavePercentage(b, "away_saves", "home_shots_on_goal")
         ELSE SavePercentage(b, "home_saves", "away_shots_on_goal")

-----------------------------------------------------------------------------
(* nhl/boxscore.py: Boxscores, the daily listing.                           *)

BOXSCORES_URL == "BOXSCORES_URL"

\* The tokens of an anchor's markup that begin with the character '/'.
SlashTokens == {"/", "/teams/", "/boxscores/", "/a>"}

\* re.sub(r'/.*', '', line) on one line
DropFromFirstSlash(line) ==
    IF \E i \in 1..Len(line) : line[i] \in SlashTokens
    THEN SubSeq(line, 1,
                (CHOOSE i \in 1..Len(line) :
                    /\ line[i] \in SlashTokens
                    /\ \A j \in 1..(i - 1) : line[j] \notin SlashTokens) - 1)
    ELSE line

\* Boxscores._parse_abbreviation(abbr) on the markup of a name tag
Boxscores_parse_abbreviation(m) ==
    LET ls == Split(m, Newline)
        cut == [i \in 1..Len(ls) |-> AfterLast(ls[i], "/teams/")]
        ls2 == Split(Join(cut, Newline), Newline)
    IN  Join([i \in 1..Len(ls2) |-> DropFromFirstSlash(ls2[i])], Newline)

\* Boxscores._get_name(name): the tag's text and its abbreviation
Boxscores_get_name(a) ==
    [name |-> a.text, abbr |-> Boxscores_parse_abbreviation(a.markup)]

\* Boxscores._get_team_names(game): the first and the last link of the block
Boxscores_get_team_names_HomeSecond(block) ==
    IF Len(block) = 0 THEN Raise("IndexError", "list index out of range")
    ELSE Return([away |-> Boxscores_get_name(block[1]),
                 home |-> Boxscores_get_name(
                              block[IF Len(block) >= 2 THEN 2 ELSE 1])])

Boxscores_get_team_names(block) ==
    IF Len(block) = 0 THEN Raise("IndexError", "list index out of range")
    ELSE Return([away |-> Boxscores_get_name(block[1]),
                 home |-> Boxscores_get_name(block[Len(block)])])

\* str(game('td[class="right gamelink"] a')): the markup of the links the
\* selector matches, one after the other.
RECURSIVE GameLinkMarkup(_)
GameLinkMarkup(block) ==
    IF block = <<>> THEN <<>>
    ELSE (IF Head(block).gamelink THEN Head(block).markup ELSE <<>>)
            \o GameLinkMarkup(Tail(block))

\* The entry _extract_game_info appends for one game block.
GameInfo(block) ==
    LET names == Boxscores_get_team_names(block).value
    IN  [boxscore |-> Boxscores_get_boxscore_uri(GameLinkMarkup(block)),
         away_name |-> names.away.name,
         away_abbr |-> names.away.abbr,
         home_name |-> names.home.name,
         home_abbr |-> names.home.abbr]

\* Boxscores._extract_game_info(games)
ExtractGameInfo(blocks) ==
    IF \E i \in 1..Len(blocks) : Len(blocks[i]) = 0
    THEN Raise("IndexError", "list index out of range")
    ELSE Return([i \in 1..Len(blocks) |-> GameInfo(blocks[i])])

\* The pq(url) calls of Boxscores._find_games: _get_requested_page, once.
FindGamesRequests(l) == <<BOXSCORES_URL>>

\* Boxscores._find_games(date) on what pq(url) yields; an exception of pq
\* is not caught.
FindGames(l) ==
    IF l.t = "None" THEN Raise("HTTPError", "")
    ELSE ExtractGameInfo(l.blocks)

-----------------------------------------------------------------------------
(* nba/schedule.py: the typed accessors of a Game.                          *)

\* str.lower() on a text
Lower(text) == [i \in 1..Len(text) |-> LowerToken(text[i])]

WIN == "Win"
LOSS == "Loss"

\* Game.location
Game_location_NotHome(g) ==
    IF g._location.t # "str" THEN AttributeError
    ELSE IF Lower(g._location.v) = <<"h">> THEN Return(HOME) ELSE Return(AWAY)

Game_location(g) ==
    IF g._location.t # "str" THEN AttributeError
    ELSE IF Lower(g._location.v) = <<"@">> THEN Return(AWAY) ELSE Return(HOME)

\* Game.result
Game_result_NoLower(g) ==
    IF g._result.t # "str" THEN AttributeError
    ELSE IF g._result.v = <<"L">> THEN Return(LOSS) ELSE Return(WIN)

Game_result(g) ==
    IF g._result.t # "str" THEN AttributeError
    ELSE IF Lower(g._result.v) = <<"l">> THEN Return(LOSS) ELSE Return(WIN)

-----------------------------------------------------------------------------
(* The schedule scenario: a page is fetched, Schedule.__init__ builds the   *)
(* collection, then the read operations are called in any order.            *)

Date_2017_10_18 == <<"2", "0", "1", "7", "-", "1", "0", "-", "1", "8">>
Date_2017_10_19 == <<"2", "0", "1", "7", "-", "1", "0", "-", "1", "9">>
Date_2018_10_18 == <<"2", "0", "1", "8", "-", "1", "0", "-", "1", "8">>

BoxCell == <<"<", "/boxscores/", "I", "D", ".html", ">">>

\* The format Game.date documents ('Wed, Oct 18, 2017').
Date_Wed_Oct_18_2017 ==
    <<"W", "e", "d", ",", " ", "O", "c", "t", " ", "1", "8", ",", " ",
      "2", "0", "1", "7">>

HeaderRow(c) ==
    [cls |-> c, date |-> <<>>, box |-> <<>>, location |-> <<>>,
     result |-> <<>>]
DataRow(d) ==
    [cls |-> "", date |-> <<d>>, box |-> BoxCell, location |-> <<<<"@">>>>,
     result |-> <<<<"W">>>>]

Rows ==
    {HeaderRow(c) : c \in HeaderClasses}
        \cup {DataRow(d) : d \in {Date_2017_10_18, Date_2017_10_19,
                                  Date_2018_10_18, Date_Wed_Oct_18_2017}}

PlayoffRows ==
    {HeaderRow("thead"), DataRow(Date_2017_10_18),
     DataRow(Date_Wed_Oct_18_2017)}

\* A playoff block is inside div#all_tgl_basic_playoffs, so a page that has
\* playoff rows contains the marker; the marker can also stand alone.
Docs ==
    {d \in [regular : SeqsUpTo(Rows, MaxRegular),
            playoffs : SeqsUpTo(PlayoffRows, MaxPlayoff),
            marker : BOOLEAN] : d.playoffs # <<>> => d.marker}

Queries == [year : {2017, 2018}, month : {10}, day : {18, 19}, hour : {0, 20}]

\* Schedule.__init__
PullSchedule ==
    /\ spc = "new"
    /\ games' = PullScheduleGames(doc)
    /\ spc' = "built"
    /\ requests' = [requests EXCEPT
                        !.schedule = @ \o PullScheduleRequests(doc)]
    /\ UNCHANGED <<doc, sres>>

\* Schedule.__call__(date)
Call ==
    /\ spc = "built"
    /\ \E date \in Queries :
          sres' = [op |-> "call", arg |-> date,
                   out |-> Schedule_call(games, date)]
    /\ UNCHANGED <<doc, games, spc, requests>>

\* Schedule.__getitem__(index)
GetItem ==
    /\ spc = "built"
    /\ \E index \in (0 - Len(games) - 1)..Len(games) :
          sres' = [op |-> "getitem", arg |-> index,
                   out |-> Schedule_getitem(games, index)]
    /\ UNCHANGED <<doc, games, spc, requests>>

\* len(schedule)
LenOp ==
    /\ spc = "built"
    /\ sres' = [op |-> "len", arg |-> PyNone,
                out |-> Return(Schedule_len(games))]
    /\ UNCHANGED <<doc, games, spc, requests>>

\* iter(schedule), consumed to the end
IterOp ==
    /\ spc = "built"
    /\ sres' = [op |-> "iter", arg |-> PyNone,
                out |-> Return(Schedule_iter(games))]
    /\ UNCHANGED <<doc, games, spc, requests>>

-----------------------------------------------------------------------------
(* The schedule scenario as a specification; no Boxscore is constructed and *)
(* no URI extraction is requested in it.                                    *)

InitSchedule ==
    /\ doc \in Docs
    /\ games = <<>>
    /\ spc = "new"
    /\ sres = NoResult
    /\ uri = <<>>
    /\ fetch = "none"
    /\ page = PyNone
    /\ config = PyNone
    /\ box = PyNone
    /\ bpc = "idle"
    /\ bres = NoResult
    /\ markup = NoMarkup
    /\ ures = NoResult
    /\ game_data = PyNone
    /\ game = PyNone
    /\ gpc = "idle"
    /\ gres = NoResult
    /\ listing = PyNone
    /\ boxscores = <<>>
    /\ lpc = "idle"
    /\ lres = NoResult
    /\ requests = NoRequests

NextSchedule ==
    \/ PullSchedule /\ UNCHANGED <<boxVars, uriVars, gameVars, listVars>>
    \/ Call /\ UNCHANGED <<boxVars, uriVars, gameVars, listVars>>
    \/ GetItem /\ UNCHANGED <<boxVars, uriVars, gameVars, listVars>>
    \/ LenOp /\ UNCHANGED <<boxVars, uriVars, gameVars, listVars>>
    \/ IterOp /\ UNCHANGED <<boxVars, uriVars, gameVars, listVars>>

SpecSchedule == InitSchedule /\ [][NextSchedule]_vars

-----------------------------------------------------------------------------
(* The boxscore scenario: Boxscore(uri) is constructed over whatever the    *)
(* fetch yields, then its accessors are read in any order.                  *)

Uri_201806070VEG == <<"2", "0", "1", "8", "0", "6", "0", "7", "0", "V", "E", "G">>

DateLine == <<"June 7", ",", " ", "2018", ",", " ", "8:00 PM">>
AttendanceLine == <<"Attendance: ", "1", ",", "2", "3", "4">>
ArenaLine == <<"Arena: ", "T-Mobile Arena">>
DurationLine == <<"Game Duration: ", "2", ":", "3", "1">>

\* The lines that follow the date (and the round label) in a block.
BodyLine(i) ==
    IF i % 3 = 1 THEN AttendanceLine
    ELSE IF i % 3 = 2 THEN ArenaLine ELSE DurationLine

RoundLines ==
    {<<"Eastern First Round">>, <<"Western First Round">>,
     <<"Eastern Second Round">>, <<"Western Second Round">>,
     <<"Eastern Conference Finals">>, <<"Western Conference Finals">>,
     <<"Stanley Cup Final">>, <<"STANLEY CUP FINAL">>,
     <<"Game 5", " ", "Stanley Cup Final">>}

\* Information blocks: the date line, an optional round line, then up to
\* MaxInfoLines further lines, joined by newlines.
\* One block names the round on line 2 instead.
InfoBlocks ==
    {Join(<<DateLine>> \o r \o [i \in 1..k |-> BodyLine(i)], Newline) :
        r \in {<<>>} \cup {<<l>> : l \in RoundLines}, k \in 0..MaxInfoLines}
    \cup {Join(<<DateLine, AttendanceLine, <<"Stanley Cup Final">>,
                 ArenaLine>>, Newline)}

\* What the selector of the date/location fields matches: nothing, or one
\* information block.
InfoItems == {<<>>} \cup {<<b>> : b \in InfoBlocks}

\* BOXSCORE_ELEMENT_INDEX tables.
IndexTables ==
    {[date |-> 0, time |-> 0, attendance |-> 1, arena |-> 2, duration |-> 3],
     [date |-> 0, time |-> 0, arena |-> 1, attendance |-> 2, duration |-> 3]}

NameTag(name, abbr) ==
    [t |-> "tag", text |-> <<name>>,
     markup |-> <<"<a href=\"", "/teams/", abbr, "/", "2018", ".html", "\">",
                  name, "</a>">>]

\* A retrieved page: what each field's selector matches in it.
MakePage(info, cells, skaters, goalies, score) ==
    [t |-> "page", empty |-> FALSE,
     items |-> [f \in DeclaredFieldSet |->
        IF f \in DateLocationFields THEN info
        ELSE IF f \in fields_to_special_parse THEN cells
        ELSE IF f \in DOMAIN score THEN score[f]
        ELSE <<<<"3">>>>],
     tags |-> [f \in NameFields |->
        IF f = "away_name" THEN NameTag("Washington Capitals", "WSH")
        ELSE NameTag("Vegas Golden Knights", "VEG")],
     away_skaters |-> skaters,
     away_goalies |-> goalies]

Score(ag, hg, asog, hsog) ==
    [away_goals |-> ag, home_goals |-> hg, away_shots_on_goal |-> asog,
     home_shots_on_goal |-> hsog]

Scores ==
    {Score(<<<<"4">>>>, <<<<"3">>>>, <<<<"3">>>>, <<<<"0">>>>),
     Score(<<<<"1">>>>, <<<<"2">>>>, <<<<"0">>>>, <<<<"7">>>>),
     Score(<<<<"2">>>>, <<<<"2">>>>, <<>>, <<<<>>>>)}

\* Pages that differ in the information block and in the score.
BoxscorePages ==
    {MakePage(info, cells, 2, goalies, score) :
        info \in InfoItems,
        cells \in {<<>>, <<<<"1">>, <<>>, <<"2">>, <<>>, <<"3">>>>},
        goalies \in {<<2>>, <<2, 1>>},
        score \in Scores}

InitBoxscore ==
    /\ uri = Uri_201806070VEG
    /\ \/ fetch \in {"raises", "empty"} /\ page = PyNone
       \/ fetch = "page" /\ page \in BoxscorePages
    /\ config \in IndexTables
    /\ box = PyNone
    /\ bpc = "new"
    /\ bres = NoResult
    /\ doc = [regular |-> <<>>, playoffs |-> <<>>, marker |-> FALSE]
    /\ games = <<>>
    /\ spc = "idle"
    /\ sres = NoResult
    /\ markup = NoMarkup
    /\ ures = NoResult
    /\ game_data = PyNone
    /\ game = PyNone
    /\ gpc = "idle"
    /\ gres = NoResult
    /\ listing = PyNone
    /\ boxscores = <<>>
    /\ lpc = "idle"
    /\ lres = NoResult
    /\ requests = NoRequests

\* Boxscore(uri)
Build ==
    /\ bpc = "new"
    /\ LET r == BuildBoxscore(uri, fetch, page, config)
       IN  IF r.kind = "raise"
           THEN /\ bpc' = "raised"
                /\ box' = box
                /\ bres' = [op |-> "__init__", out |-> r]
           ELSE /\ bpc' = "built"
                /\ box' = r.value
                /\ bres' = [op |-> "__init__", out |-> Return(PyNone)]
    /\ requests' = [requests EXCEPT
                        !.boxscore = @ \o RetrieveHtmlPageRequests(uri)]
    /\ UNCHANGED <<uri, fetch, page, config, schedVars, uriVars, gameVars,
                   listVars>>

\* Reading one property of the built instance.
Read_ResetsRecord(names) ==
    /\ bpc = "built"
    /\ \E name \in names : bres' = [op |-> name, out |-> Accessor(box, name)]
    /\ box' = NewBoxscore(uri)
    /\ UNCHANGED <<uri, fetch, page, config, bpc, schedVars, uriVars,
                   gameVars, listVars, requests>>

Read(names) ==
    /\ bpc = "built"
    /\ \E name \in names : bres' = [op |-> name, out |-> Accessor(box, name)]
    /\ UNCHANGED <<uri, fetch, page, config, box, bpc, schedVars, uriVars,
                   gameVars, listVars, requests>>

ReadText == Read(TextAccessors)
ReadAttendance == Read({"attendance"})
ReadInt == Read(IntAccessors)
ReadFloat == Read(FloatAccessors)
ReadAggregated == Read(AggregatedAccessors)
ReadSavePercentage == Read({"away_save_percentage", "home_save_percentage"})
ReadWinner == Read({"winner"} \cup TeamAccessors)

NextBoxscore ==
    \/ Build
    \/ ReadText
    \/ ReadAttendance
    \/ ReadInt
    \/ ReadFloat
    \/ ReadAggregated
    \/ ReadSavePercentage
    \/ ReadWinner

SpecBoxscore == InitBoxscore /\ [][NextBoxscore]_vars

-----------------------------------------------------------------------------
(* The aggregation scenario: boxscores whose pages differ in the cells of   *)
(* the aggregated fields and in the away-side counts.                       *)

CellTexts == {<<>>, <<"1">>, <<"2">>, <<"-", "1", "0">>, <<"x">>}

StandardInfo ==
    <<Join(<<DateLine, AttendanceLine, ArenaLine, DurationLine>>, Newline)>>

AggregatePages ==
    {MakePage(StandardInfo, cells, n, <<n, g>>,
              Score(<<<<"4">>>>, <<<<"3">>>>, <<<<"3">>>>, <<<<"0">>>>)) :
        cells \in SeqsUpTo(CellTexts, MaxCells),
        n \in 0..MaxSkaters,
        g \in 0..MaxGoalies}

InitAggregate ==
    /\ uri = Uri_201806070VEG
    /\ fetch = "page"
    /\ page \in AggregatePages
    /\ config = [date |-> 0, time |-> 0, attendance |-> 1, arena |-> 2,
                 duration |-> 3]
    /\ box = PyNone
    /\ bpc = "new"
    /\ bres = NoResult
    /\ doc = [regular |-> <<>>, playoffs |-> <<>>, marker |-> FALSE]
    /\ games = <<>>
    /\ spc = "idle"
    /\ sres = NoResult
    /\ markup = NoMarkup
    /\ ures = NoResult
    /\ game_data = PyNone
    /\ game = PyNone
    /\ gpc = "idle"
    /\ gres = NoResult
    /\ listing = PyNone
    /\ boxscores = <<>>
    /\ lpc = "idle"
    /\ lres = NoResult
    /\ requests = NoRequests

NextAggregate == Build \/ ReadAggregated

SpecAggregate == InitAggregate /\ [][NextAggregate]_vars

-----------------------------------------------------------------------------
(* Claims about the Schedule.                                               *)

\* The rows of a table that carry no header-separator marker, in order.
DataRowsOf(rows) == SelectSeq(rows, LAMBDA r : r.cls \notin HeaderClasses)

\* The date a game's raw date text denotes, if it denotes one.
MatchesQuery(g, q) ==
    LET dt == Strptime(g._date.v)
    IN  /\ dt.kind = "return"
        /\ dt.value.year = q.year
        /\ dt.value.month = q.month
        /\ dt.value.day = q.day

MatchingIndexes(q) == {i \in 1..Len(games) : MatchesQuery(games[i], q)}

\* C1: if some game of the collection has the year, month and day of the
\* query, Schedule.__call__ returns the first such game in collection order,
\* whatever the query's time of day and whatever the other games contain.
C1_FirstMatchReturned ==
    (sres.op = "call" /\ MatchingIndexes(sres.arg) # {})
        => /\ sres.out.kind = "return"
           /\ sres.out.index \in MatchingIndexes(sres.arg)
           /\ \A j \in MatchingIndexes(sres.arg) : sres.out.index <= j

\* C2: Schedule.__call__ raises the lookup-not-found ValueError exactly when
\* no game matches the queried day, and leaves the collection as built.
C2_NotFoundExactlyWhenNoMatch ==
    (sres.op = "call")
        => /\ (MatchingIndexes(sres.arg) = {}) <=> (sres.out = NotFound)
           /\ games = PullScheduleGames(doc)

GamesOf(rows) == [i \in 1..Len(DataRowsOf(rows)) |-> Game(DataRowsOf(rows)[i])]

\* The rows _pull_schedule hands to _add_games_to_schedule, in call order.
RowsHandled == doc.regular \o (IF doc.marker THEN doc.playoffs ELSE <<>>)

\* C3: a row carrying a header-separator marker (class="thead" or
\* class="over_header thead") never produces a Game; every other row
\* produces exactly one Game, appended in document order, so the number of
\* games equals the number of non-header rows.
C3_HeaderRowsNeverProduceGames ==
    spc = "built"
        => /\ Len(games) = Len(DataRowsOf(RowsHandled))
           /\ \A i \in 1..Len(games) : games[i] = Game(DataRowsOf(RowsHandled)[i])

C3_Witness ==
    /\ spc = "built"
    /\ \E i \in 1..Len(doc.regular) : doc.regular[i].cls = "thead"
    /\ \E i \in 1..Len(doc.regular) : doc.regular[i].cls = "over_header thead"
    /\ Len(doc.playoffs) > 0
    /\ Len(games) > 0

RegularGames == GamesOf(doc.regular)

RegularGamesFirst ==
    /\ Len(games) >= Len(RegularGames)
    /\ SubSeq(games, 1, Len(RegularGames)) = RegularGames

PlayoffGamesAdded == SubSeq(games, Len(RegularGames) + 1, Len(games))

\* C4 as stated: every regular-season game precedes every playoff game, and
\* playoff games are added if and only if the page contains the marker
\* 'tgl_basic_playoffs'.
C4_PlayoffsAddedIffMarker ==
    spc = "built"
        => /\ RegularGamesFirst
           /\ (PlayoffGamesAdded # <<>>) <=> doc.marker

\* C4 as amended: every regular-season game precedes every playoff game;
\* playoff games are added only if the page contains the marker, and when it
\* does, the games added are exactly those of the non-header rows of the
\* playoff block, in order (none when the block has no data row).
C4_RegularFirstThenPlayoffBlock ==
    spc = "built"
        => /\ RegularGamesFirst
           /\ (PlayoffGamesAdded # <<>>) => doc.marker
           /\ doc.marker => PlayoffGamesAdded = GamesOf(doc.playoffs)

C4_Witness ==
    /\ spc = "built"
    /\ doc.marker
    /\ Len(RegularGames) > 0
    /\ Len(PlayoffGamesAdded) = 2
    /\ PlayoffGamesAdded[1] # PlayoffGamesAdded[2]
    /\ RegularGames[1] # PlayoffGamesAdded[1]

-----------------------------------------------------------------------------
(* The boxscore-URI scenario: a link markup is handed to the schedule row   *)
(* handler and to the daily listing handler.                                *)

Markups ==
    [prefix : SeqsUpTo({"a", Newline, BoxscoresMarker, HtmlMarker}, MaxPrefix),
     id : SeqsUpTo({"I", "D"}, MaxId) \ {<<>>},
     suffix : SeqsUpTo({"a", " ", Newline, BoxscoresMarker, HtmlMarker},
                       MaxSuffix)]

InitUri ==
    /\ markup \in Markups
    /\ ures = NoResult
    /\ doc = [regular |-> <<>>, playoffs |-> <<>>, marker |-> FALSE]
    /\ games = <<>>
    /\ spc = "idle"
    /\ sres = NoResult
    /\ uri = <<>>
    /\ fetch = "none"
    /\ page = PyNone
    /\ config = PyNone
    /\ box = PyNone
    /\ bpc = "idle"
    /\ bres = NoResult
    /\ game_data = PyNone
    /\ game = PyNone
    /\ gpc = "idle"
    /\ gres = NoResult
    /\ listing = PyNone
    /\ boxscores = <<>>
    /\ lpc = "idle"
    /\ lres = NoResult
    /\ requests = NoRequests

\* Game._parse_boxscore on a row whose boxscore cell has this markup
ParseBoxscore ==
    /\ ures' = [op |-> "Game._parse_boxscore",
                out |-> Game_parse_boxscore(MarkupText(markup))]
    /\ UNCHANGED <<markup, schedVars, boxVars, gameVars, listVars, requests>>

\* Boxscores._get_boxscore_uri on this markup
GetBoxscoreUri ==
    /\ ures' = [op |-> "Boxscores._get_boxscore_uri",
                out |-> Boxscores_get_boxscore_uri(MarkupText(markup))]
    /\ UNCHANGED <<markup, schedVars, boxVars, gameVars, listVars, requests>>

NextUri == ParseBoxscore \/ GetBoxscoreUri

SpecUri == InitUri /\ [][NextUri]_vars

\* C9 as stated: for every markup <prefix>/boxscores/<ID>.html<suffix> both
\* handlers return exactly <ID>.
C9_ExtractionReturnsId ==
    ures.op # "none" => ures.out = markup.id

\* The markup is one line, its '/boxscores/' before <ID> is the last one and
\* its '.html' after <ID> is the first one that follows.
SingleLineLastMarkerFirstHtml ==
    /\ ~Has(MarkupText(markup), Newline)
    /\ ~Has(markup.id \o <<HtmlMarker>> \o markup.suffix, BoxscoresMarker)
    /\ ~Has(markup.id, HtmlMarker)

\* C9 as amended: for every single-line markup <prefix>/boxscores/<ID>.html
\* <suffix> in which that '/boxscores/' is the last occurrence and that
\* '.html' the first occurrence after it, and <ID> has no leading or trailing
\* whitespace, both handlers return exactly <ID>.
C9_ExtractionReturnsIdOnOneLine ==
    (ures.op # "none" /\ SingleLineLastMarkerFirstHtml
        /\ Strip(markup.id) = markup.id)
        => ures.out = markup.id

C9_Witness ==
    /\ ures.op = "Boxscores._get_boxscore_uri"
    /\ SingleLineLastMarkerFirstHtml
    /\ Has(markup.prefix, BoxscoresMarker)
    /\ Has(markup.suffix, HtmlMarker)
    /\ Len(markup.id) = 2
    /\ ures.out = markup.id

-----------------------------------------------------------------------------
(* Claims about the Boxscore.                                               *)

PageNotRetrieved == fetch \in {"raises", "empty"}

\* C5: when the page cannot be retrieved (the fetch raises, or yields an
\* empty document), constructing the Boxscore does not raise, every declared
\* field other than the uri stays None and the uri keeps the caller's value.
C5_FailedFetchLeavesDefaults ==
    (PageNotRetrieved /\ bpc # "new")
        => /\ bpc = "built"
           /\ box["uri"] = PyStr(uri)
           /\ \A f \in DeclaredFieldSet \ {"uri"} : box[f] = PyNone

C5_Witness ==
    /\ fetch = "empty"
    /\ bpc = "built"
    /\ box["uri"] = PyStr(Uri_201806070VEG)
    /\ box["date"] = PyNone

\* C6: a Boxscore built from a page that could not be retrieved reports "no
\* data" on every accessor rather than raising.
C6_EmptyRecordAccessorsDoNotRaise ==
    (PageNotRetrieved /\ bpc = "built" /\ bres.op \in Accessors)
        => bres.out.kind = "return"

\* The raw value of a field holds no data: the field was never parsed, or
\* its selector matched nothing.
NoData(raw) ==
    \/ raw.t = "None"
    \/ raw.t = "str" /\ raw.v = <<>>
    \/ raw.t = "list" /\ raw.v = <<>>

NumericAccessors ==
    IntAccessors \cup FloatAccessors \cup AggregatedAccessors \cup {"attendance"}

\* C7: a typed accessor never reports a number for a field whose data is
\* absent, the side-aggregated accessors over an empty list included.
C7_NoNumberWithoutData ==
    (bpc = "built" /\ bres.op \in NumericAccessors /\ NoData(box[bres.op]))
        => ~(bres.out.kind = "return" /\ bres.out.value.t \in {"int", "float"})

\* The lines of the information block the page holds for a field.
InfoLines(f) == Split(page.items[f][1], Newline)

\* Line i (from 0) of the block, or the empty text past its end.
InfoLineAt(f, i) ==
    IF i + 1 <= Len(InfoLines(f)) THEN InfoLines(f)[i + 1] ELSE <<>>

\* Line 1 of the block is one of the round lines.
RoundOnLine1(f) == InfoLines(f)[2] \in RoundLines

\* C8: when line 1 of the information block carries a playoff-round label,
\* arena, attendance and duration are read from their configured index plus
\* exactly 1 while date and time are read from their configured index; with
\* no round label every field is read from its configured index.
C8_RoundLabelShiftsByOne ==
    (bpc = "built" /\ fetch = "page")
        => \A f \in DateLocationFields :
              box[f] = PyStr(InfoLineAt(f,
                  IF RoundOnLine1(f) /\ f \notin {"date", "time"}
                  THEN config[f] + 1 ELSE config[f]))

C8_Witness ==
    /\ bpc = "built"
    /\ fetch = "page"
    /\ InfoLines("arena")[2] = <<"Game 5", " ", "Stanley Cup Final">>
    /\ box["arena"] = PyStr(ArenaLine)
    /\ box["attendance"] = PyStr(AttendanceLine)
    /\ box["duration"] = PyStr(DurationLine)
    /\ box["date"] = PyStr(DateLine)

-----------------------------------------------------------------------------
(* Claims about the side-aggregated accessors.                              *)

AwayAggregatedAccessors ==
    {"away_game_winning_goals", "away_even_strength_assists",
     "away_power_play_assists", "away_short_handed_assists", "away_saves",
     "away_shutout"}

\* What a cell contributes: its integer if it parses as one, else nothing.
CellContribution(cell) ==
    IF ParseInt(cell).kind = "return" THEN ParseInt(cell).value ELSE 0

RECURSIVE SumOfCellsAt(_, _)
SumOfCellsAt(cells, positions) ==
    IF positions = {} THEN 0
    ELSE LET i == CHOOSE j \in positions : TRUE
         IN  CellContribution(cells[i]) + SumOfCellsAt(cells, positions \ {i})

\* The positions of the selected sub-slice for split point n.
SelectedPositions(name, cells, n) ==
    IF name \in AwayAggregatedAccessors
    THEN {i \in 1..Len(cells) : i <= n}
    ELSE {i \in 1..Len(cells) : i > n}

\* C10: for every side-aggregated accessor and every raw cell list, the
\* result is the sum of exactly those cells of the selected sub-slice (the
\* first N cells for an away accessor, the cells from position N onward for
\* a home accessor) that parse as integers; cells that do not parse
\* contribute nothing and never cause an error.
C10_SumOfParsableCellsOfSlice ==
    (bpc = "built" /\ bres.op \in AggregatedAccessors)
        => /\ bres.out.kind = "return"
           /\ \E n \in {box["away_skaters"].v, box["away_goalies"].v} :
                 bres.out.value =
                     PyInt(SumOfCellsAt(box[bres.op].v,
                               SelectedPositions(bres.op, box[bres.op].v, n)))

C10_Witness ==
    /\ bpc = "built"
    /\ bres.op = "away_game_winning_goals"
    /\ box["away_game_winning_goals"] = PyList(<<<<"1">>, <<>>, <<"2">>>>)
    /\ box["away_skaters"] = PyInt(3)
    /\ bres.out = Return(PyInt(3))

\* The split point the contract names for an aggregated accessor of the
\* built instance: the away-goalie count for the four goalie fields, the
\* away-skater count for the other eight.
ContractSplitPoint(name) ==
    IF name \in {"away_saves", "away_shutout", "home_saves", "home_shutout"}
    THEN box["away_goalies"].v
    ELSE box["away_skaters"].v

\* C11: the away/home split point of a side-aggregated accessor is the
\* recorded away-goalie count exactly for away_saves, away_shutout,
\* home_saves and home_shutout, and the recorded away-skater count for every
\* other aggregated accessor.
C11_SplitPointByFieldKind ==
    (bpc = "built" /\ bres.op \in AggregatedAccessors)
        => bres.out =
              Return(PyInt(SumOfCellsAt(box[bres.op].v,
                  SelectedPositions(bres.op, box[bres.op].v,
                                    ContractSplitPoint(bres.op)))))

\* A goalie field read where the two counts differ and select different sums.
C11_Witness ==
    /\ bpc = "built"
    /\ bres.op = "home_saves"
    /\ box["home_saves"] = PyList(<<<<"1">>, <<"2">>, <<"1">>>>)
    /\ box["away_skaters"] = PyInt(2)
    /\ box["away_goalies"] = PyInt(1)
    /\ bres.out = Return(PyInt(3))

-----------------------------------------------------------------------------
(* Claims about the derived and coerced accessors of a Boxscore.            *)

SavePercentageAccessors == {"away_save_percentage", "home_save_percentage"}

\* The divisor of a save percentage: the opposing side's shots on goal, as
\* the shots-on-goal accessor reports them.
Divisor(name) ==
    IF name = "away_save_percentage"
    THEN IntProperty(box["home_shots_on_goal"]).value
    ELSE IntProperty(box["away_shots_on_goal"]).value

\* C12: away_save_percentage and home_save_percentage yield exactly 0.0 when
\* the opposing side's shots on goal are zero, and never raise for any
\* record.
C12_SavePercentageNeverRaises ==
    (bpc = "built" /\ bres.op \in SavePercentageAccessors)
        => /\ bres.out.kind = "return"
           /\ Divisor(bres.op) = PyInt(0) => bres.out = Return(PyFloat(0))

-----------------------------------------------------------------------------
(* The game scenario: Game(game_data) is constructed from a schedule row,   *)
(* then its accessors are read in any order.                                *)

LocationTexts == {<<"@">>, <<"H">>, <<"N">>, <<>>, <<"@", "@">>, <<" ", "@">>}

ResultTexts ==
    {<<"L">>, <<"l">>, <<"W">>, <<"w">>, <<"T">>, <<>>, <<"L", "L">>,
     <<"L", " ", "(", "O", "T", ")">>}

\* Schedule rows that differ in what the location and result selectors
\* match: nothing, or one cell with a text.
GameRows ==
    [cls : {""},
     date : {<<Date_2017_10_18>>, <<Date_Wed_Oct_18_2017>>},
     box : {BoxCell},
     location : {<<>>} \cup {<<t>> : t \in LocationTexts},
     result : {<<>>} \cup {<<t>> : t \in ResultTexts}]

GameAccessors == {"date", "datetime", "location", "result"}

\* Reading the property `name` of the Game g.
GameAccessor(g, name) ==
    CASE name = "date" -> Return(g._date)
      [] name = "datetime" -> Game_datetime(g)
      [] name = "location" -> Game_location(g)
      [] name = "result" -> Game_result(g)

\* Game(game_data)
BuildGame ==
    /\ gpc = "new"
    /\ game' = Game(game_data)
    /\ gpc' = "built"
    /\ UNCHANGED <<game_data, gres, schedVars, boxVars, uriVars, listVars,
                   requests>>

\* Reading one property of the built Game.
ReadGame ==
    /\ gpc = "built"
    /\ \E name \in GameAccessors :
          gres' = [op |-> name, out |-> GameAccessor(game, name)]
    /\ UNCHANGED <<game_data, game, gpc, schedVars, boxVars, uriVars, listVars,
                   requests>>

InitGame ==
    /\ game_data \in GameRows
    /\ game = PyNone
    /\ gpc = "new"
    /\ gres = NoResult
    /\ doc = [regular |-> <<>>, playoffs |-> <<>>, marker |-> FALSE]
    /\ games = <<>>
    /\ spc = "idle"
    /\ sres = NoResult
    /\ uri = <<>>
    /\ fetch = "none"
    /\ page = PyNone
    /\ config = PyNone
    /\ box = PyNone
    /\ bpc = "idle"
    /\ bres = NoResult
    /\ markup = NoMarkup
    /\ ures = NoResult
    /\ listing = PyNone
    /\ boxscores = <<>>
    /\ lpc = "idle"
    /\ lres = NoResult
    /\ requests = NoRequests

NextGame == BuildGame \/ ReadGame

SpecGame == InitGame /\ [][NextGame]_vars

\* C13: Game.location returns AWAY exactly when the raw location value is
\* '@' and returns HOME for every other raw value.
C13_LocationAwayIffAt ==
    (gpc = "built" /\ gres.op = "location")
        => /\ gres.out \in {Return(AWAY), Return(HOME)}
           /\ gres.out = Return(AWAY) <=> game._location = PyStr(<<"@">>)

C13_Witness ==
    /\ gpc = "built"
    /\ gres.op = "location"
    /\ game._location = PyStr(<<"N">>)
    /\ gres.out = Return(HOME)

\* C14: Game.result returns LOSS exactly when the raw result value is 'L' or
\* 'l' and returns WIN for every other raw value.
C14_ResultLossIffL ==
    (gpc = "built" /\ gres.op = "result")
        => /\ gres.out \in {Return(LOSS), Return(WIN)}
           /\ gres.out = Return(LOSS)
                 <=> game._result \in {PyStr(<<"L">>), PyStr(<<"l">>)}

C14_Witness ==
    /\ gpc = "built"
    /\ gres.op = "result"
    /\ game._result = PyStr(<<"l">>)
    /\ gres.out = Return(LOSS)

-----------------------------------------------------------------------------
(* The attendance scenario: boxscores whose pages differ in the attendance  *)
(* line of the information block.                                           *)

\* 'Attendance: ' followed by digits and commas in any arrangement.
AttendanceLines ==
    {<<"Attendance: ">> \o t :
        t \in SeqsUpTo({"1", "2", "3", "4", ","}, MaxAttendanceChars)}

AttendancePages ==
    {MakePage(<<Join(<<DateLine, a, ArenaLine, DurationLine>>, Newline)>>,
              <<>>, 2, <<2, 1>>,
              Score(<<<<"4">>>>, <<<<"3">>>>, <<<<"3">>>>, <<<<"0">>>>)) :
        a \in AttendanceLines}

InitAttendance ==
    /\ uri = Uri_201806070VEG
    /\ fetch = "page"
    /\ page \in AttendancePages
    /\ config = [date |-> 0, time |-> 0, attendance |-> 1, arena |-> 2,
                 duration |-> 3]
    /\ box = PyNone
    /\ bpc = "new"
    /\ bres = NoResult
    /\ doc = [regular |-> <<>>, playoffs |-> <<>>, marker |-> FALSE]
    /\ games = <<>>
    /\ spc = "idle"
    /\ sres = NoResult
    /\ markup = NoMarkup
    /\ ures = NoResult
    /\ game_data = PyNone
    /\ game = PyNone
    /\ gpc = "idle"
    /\ gres = NoResult
    /\ listing = PyNone
    /\ boxscores = <<>>
    /\ lpc = "idle"
    /\ lres = NoResult
    /\ requests = NoRequests

NextAttendance == Build \/ ReadAttendance

SpecAttendance == InitAttendance /\ [][NextAttendance]_vars

\* The integer a text of digits and grouping commas denotes, read left to
\* right from the value acc.
RECURSIVE DigitsDenote(_, _)
DigitsDenote(text, acc) ==
    IF text = <<>> THEN acc
    ELSE IF Head(text) = "," THEN DigitsDenote(Tail(text), acc)
    ELSE DigitsDenote(Tail(text), acc * 10 + DigitValue(Head(text)))

\* The raw attendance is 'Attendance: ' followed by comma-grouped digits.
IsGroupedAttendance(raw) ==
    /\ raw.t = "str"
    /\ Len(raw.v) >= 2
    /\ raw.v[1] = "Attendance: "
    /\ \A i \in 2..Len(raw.v) : IsDigit(raw.v[i]) \/ raw.v[i] = ","
    /\ \E i \in 2..Len(raw.v) : IsDigit(raw.v[i])

\* C15: the attendance accessor strips the 'Attendance: ' prefix and every
\* comma before integer coercion, so 'Attendance: <digits with comma
\* grouping>' coerces to the integer those digits denote.
C15_AttendanceDropsPrefixAndCommas ==
    (bpc = "built" /\ bres.op = "attendance"
        /\ IsGroupedAttendance(box["attendance"]))
        => bres.out = Return(PyInt(DigitsDenote(Tail(box["attendance"].v), 0)))

C15_Witness ==
    /\ bpc = "built"
    /\ bres.op = "attendance"
    /\ box["attendance"] = PyStr(<<"Attendance: ", "1", ",", "2", "3", "4">>)
    /\ bres.out = Return(PyInt(1234))

-----------------------------------------------------------------------------
(* The listing scenario: Boxscores(date) is constructed over whatever the   *)
(* fetch of the day's page yields.                                          *)

TeamAnchor(name, abbr) ==
    [text |-> <<name>>, gamelink |-> FALSE,
     markup |-> <<"<a href=\"", "/teams/", abbr, "/", "2018", ".html", "\">",
                  name, "<", "/a>">>]

GameLinkAnchor(id) ==
    [text |-> <<"Final">>, gamelink |-> TRUE,
     markup |-> <<"<a href=\"", "/boxscores/">> \o id
                    \o <<".html", "\">", "Final", "<", "/a>">>]

Capitals == TeamAnchor("Washington Capitals", "WSH")
Knights == TeamAnchor("Vegas Golden Knights", "VEG")
FinalLink == GameLinkAnchor(Uri_201806070VEG)

\* Game blocks: the links of one table of class "teams", in document order.
GameBlocks ==
    {<<>>, <<Capitals>>, <<FinalLink>>, <<Capitals, Knights>>,
     <<Capitals, FinalLink, Knights>>, <<Knights, FinalLink, Capitals>>,
     <<Capitals, Knights, FinalLink>>}

\* What pq(url) yields for the day's page: None when it raises.
Listings ==
    {PyNone} \cup {[t |-> "listing", blocks |-> bs] :
                      bs \in SeqsUpTo(GameBlocks, MaxGames)}

\* Boxscores(date)
BuildBoxscores ==
    /\ lpc = "new"
    /\ LET r == FindGames(listing)
       IN  IF r.kind = "raise"
           THEN /\ lpc' = "raised"
                /\ boxscores' = boxscores
                /\ lres' = [op |-> "__init__", out |-> r]
           ELSE /\ lpc' = "built"
                /\ boxscores' = r.value
                /\ lres' = [op |-> "__init__", out |-> Return(PyNone)]
    /\ requests' = [requests EXCEPT
                        !.boxscores = @ \o FindGamesRequests(listing)]
    /\ UNCHANGED <<listing, schedVars, boxVars, uriVars, gameVars>>

-----------------------------------------------------------------------------
(* The three queries side by side: a Schedule, a Boxscore and a day's       *)
(* Boxscores are each built once, in any order.                             *)

QueryDocs ==
    {d \in [regular : {<<>>, <<DataRow(Date_2017_10_18)>>},
            playoffs : {<<>>, <<DataRow(Date_2017_10_19)>>},
            marker : BOOLEAN] : d.playoffs # <<>> => d.marker}

InitQueries ==
    /\ doc \in QueryDocs
    /\ games = <<>>
    /\ spc = "new"
    /\ sres = NoResult
    /\ uri = Uri_201806070VEG
    /\ \/ fetch \in {"raises", "empty"} /\ page = PyNone
       \/ /\ fetch = "page"
          /\ page = MakePage(StandardInfo, <<>>, 2, <<2, 1>>,
                        Score(<<<<"4">>>>, <<<<"3">>>>, <<<<"3">>>>,
                              <<<<"0">>>>))
    /\ config = [date |-> 0, time |-> 0, attendance |-> 1, arena |-> 2,
                 duration |-> 3]
    /\ box = PyNone
    /\ bpc = "new"
    /\ bres = NoResult
    /\ markup = NoMarkup
    /\ ures = NoResult
    /\ game_data = PyNone
    /\ game = PyNone
    /\ gpc = "idle"
    /\ gres = NoResult
    /\ listing \in Listings
    /\ boxscores = <<>>
    /\ lpc = "new"
    /\ lres = NoResult
    /\ requests = NoRequests

NextQueries ==
    \/ PullSchedule /\ UNCHANGED <<boxVars, uriVars, gameVars, listVars>>
    \/ Build
    \/ BuildBoxscores

SpecQueries == InitQueries /\ [][NextQueries]_vars

\* C16: each query performs at most one external document fetch: building a
\* Schedule fetches exactly one document even when the playoff block is
\* read, building a Boxscore fetches once and does not fetch again when the
\* fetch fails, and building a day's Boxscores fetches once.
C16_AtMostOneFetchPerQuery ==
    /\ \A q \in DOMAIN requests : Len(requests[q]) <= 1
    /\ spc = "built" => requests.schedule = <<SCHEDULE_URL>>
    /\ bpc \in {"built", "raised"} => requests.boxscore = <<BOXSCORE_URL>>
    /\ lpc \in {"built", "raised"} => requests.boxscores = <<BOXSCORES_URL>>

\* All three queries done: a schedule with a playoff game, a boxscore whose
\* fetch failed, a day's listing with one game.
C16_Witness ==
    /\ spc = "built" /\ doc.marker /\ Len(games) = 2
    /\ bpc = "built" /\ fetch = "raises"
    /\ lpc = "built" /\ Len(boxscores) = 1
    /\ requests = [schedule |-> <<SCHEDULE_URL>>, boxscore |-> <<BOXSCORE_URL>>,
                   boxscores |-> <<BOXSCORES_URL>>]

-----------------------------------------------------------------------------
(* The index scenario: boxscores whose pages and configured indexes differ  *)
(* in whether an index lies beyond what the page holds.                     *)

\* BOXSCORE_ELEMENT_INDEX tables that also give home_goals an index.
GoalIndexTables ==
    [date : {0}, time : {0}, attendance : {1}, arena : {2},
     duration : 3..MaxDurationIndex, home_goals : {0, 1}]

\* Pages in which the goals selector matches one cell or two.
IndexPages ==
    {MakePage(info, <<>>, 2, <<2, 1>>,
              Score(<<<<"4">>>>, hg, <<<<"3">>>>, <<<<"0">>>>)) :
        info \in InfoItems,
        hg \in {<<<<"4">>>>, <<<<"4">>, <<"3">>>>}}

InitIndex ==
    /\ uri = Uri_201806070VEG
    /\ fetch = "page"
    /\ page \in IndexPages
    /\ config \in GoalIndexTables
    /\ box = PyNone
    /\ bpc = "new"
    /\ bres = NoResult
    /\ doc = [regular |-> <<>>, playoffs |-> <<>>, marker |-> FALSE]
    /\ games = <<>>
    /\ spc = "idle"
    /\ sres = NoResult
    /\ markup = NoMarkup
    /\ ures = NoResult
    /\ game_data = PyNone
    /\ game = PyNone
    /\ gpc = "idle"
    /\ gres = NoResult
    /\ listing = PyNone
    /\ boxscores = <<>>
    /\ lpc = "idle"
    /\ lres = NoResult
    /\ requests = NoRequests

NextIndex == Build \/ ReadText \/ ReadInt

SpecIndex == InitIndex /\ [][NextIndex]_vars

\* The fields the loop hands to utils._parse_field.
ExtractorFields ==
    DeclaredFieldSet \ (SkippedFields \cup DateLocationFields \cup NameFields
                            \cup fields_to_special_parse)

\* The information block of the page has the two lines the handler reads
\* unconditionally.
HasInfoBlock(f) == page.items[f] # <<>> /\ Len(InfoLines(f)) >= 2

\* The index requested for field f lies beyond the items the page holds for
\* it: beyond the lines of the information block, or beyond the cells the
\* selector matches.
IndexBeyondItems(f) ==
    IF f \in DateLocationFields
    THEN /\ HasInfoBlock(f)
         /\ (IF RoundOnLine1(f) /\ f \notin {"date", "time"}
             THEN config[f] + 1 ELSE config[f]) >= Len(InfoLines(f))
    ELSE /\ f \in ExtractorFields
         /\ f \in DOMAIN config
         /\ page.items[f] # <<>>
         /\ config[f] >= Len(page.items[f])

BuildRaisedIndexError ==
    bpc = "raised" /\ bres.out.kind = "raise" /\ bres.out.exc = "IndexError"

\* C17: while building a Boxscore from a retrieved page, an index beyond the
\* items available for a field propagates to the caller as an error, for
\* every field, arena, attendance and duration included; it is never turned
\* into an empty value.
C17_IndexBeyondItemsPropagates ==
    (bpc # "new" /\ fetch = "page"
        /\ \E f \in DeclaredFieldSet : IndexBeyondItems(f))
        => BuildRaisedIndexError

\* C17 (amended): an index beyond the cells matched for a field read through
\* utils._parse_field propagates as an IndexError; an index beyond the lines
\* of the information block is swallowed for date, time, arena, attendance
\* and duration: the field becomes the empty string and the build does not
\* fail because of it.
C17_ExtractorPropagatesBlockSwallows ==
    (bpc # "new" /\ fetch = "page")
        => /\ (\E f \in ExtractorFields : IndexBeyondItems(f))
                 => BuildRaisedIndexError
           /\ (/\ \A f \in ExtractorFields : ~IndexBeyondItems(f)
               /\ \A f \in DateLocationFields : HasInfoBlock(f))
                 => /\ bpc = "built"
                    /\ \A f \in DateLocationFields :
                          IndexBeyondItems(f) => box[f] = PyStr(<<>>)

\* A two-line block: arena, attendance... lie beyond it and come out empty.
C17_Witness ==
    /\ bpc = "built"
    /\ fetch = "page"
    /\ IndexBeyondItems("duration")
    /\ IndexBeyondItems("arena")
    /\ ~IndexBeyondItems("attendance")
    /\ box["duration"] = PyStr(<<>>)
    /\ box["arena"] = PyStr(<<>>)
    /\ box["attendance"] = PyStr(AttendanceLine)

\* The selector of field f matches nothing, or the block it matches has only
\* one line.
NoBlockOrOneLine(f) ==
    page.items[f] = <<>> \/ Len(InfoLines(f)) = 1

\* C18: when the selector of a date/location field matches nothing in a
\* retrieved page, or the matched information block has only one line,
\* extraction of that field yields an empty string and building the Boxscore
\* does not fail.
C18_MissingBlockYieldsEmpty ==
    (bpc # "new" /\ fetch = "page")
        => \A f \in DateLocationFields :
              NoBlockOrOneLine(f)
                  => bpc = "built" /\ box[f] = PyStr(<<>>)

-----------------------------------------------------------------------------
(* Claims about the read operations of a built Schedule.                    *)

\* The games appended while the schedule was built, in source row order.
GamesAppended == GamesOf(RowsHandled)

\* C19: for every built Schedule, len(schedule) is the number of games
\* appended, schedule[i] is the i-th game in source row order for every
\* valid i, and iteration yields exactly those games in that order.
C19_LenIndexAndIterationAgree ==
    spc = "built"
        => /\ sres.op = "len" => sres.out = Return(Len(GamesAppended))
           /\ (sres.op = "getitem" /\ sres.arg >= 0
                  /\ sres.arg < Len(GamesAppended))
                 => sres.out = Return(GamesAppended[sres.arg + 1])
           /\ sres.op = "iter" => sres.out = Return(GamesAppended)

\* The second of two different games is read by index 1.
C19_Witness ==
    /\ spc = "built"
    /\ Len(GamesAppended) = 2
    /\ GamesAppended[1] # GamesAppended[2]
    /\ sres.op = "getitem"
    /\ sres.arg = 1
    /\ sres.out = Return(GamesAppended[2])

-----------------------------------------------------------------------------
(* The read scenario: a Schedule, a Game and a Boxscore are built, then     *)
(* read in any order.                                                       *)

StandardPage ==
    MakePage(StandardInfo, <<<<"1">>, <<"2">>, <<"x">>>>, 2, <<2, 1>>,
             Score(<<<<"4">>>>, <<<<"3">>>>, <<<<"3">>>>, <<<<"0">>>>))

ReadDocs ==
    {[regular |-> <<DataRow(Date_2017_10_18), DataRow(Date_2017_10_19)>>,
      playoffs |-> <<>>, marker |-> FALSE],
     [regular |-> <<DataRow(Date_2017_10_18)>>,
      playoffs |-> <<DataRow(Date_Wed_Oct_18_2017)>>, marker |-> TRUE]}

InitReads ==
    /\ doc \in ReadDocs
    /\ games = <<>>
    /\ spc = "new"
    /\ sres = NoResult
    /\ uri = Uri_201806070VEG
    /\ \/ fetch = "raises" /\ page = PyNone
       \/ fetch = "page" /\ page = StandardPage
    /\ config = [date |-> 0, time |-> 0, attendance |-> 1, arena |-> 2,
                 duration |-> 3]
    /\ box = PyNone
    /\ bpc = "new"
    /\ bres = NoResult
    /\ markup = NoMarkup
    /\ ures = NoResult
    /\ game_data = [cls |-> "", date |-> <<Date_2017_10_18>>, box |-> BoxCell,
                    location |-> <<<<"@">>>>, result |-> <<<<"L">>>>]
    /\ game = PyNone
    /\ gpc = "new"
    /\ gres = NoResult
    /\ listing = PyNone
    /\ boxscores = <<>>
    /\ lpc = "idle"
    /\ lres = NoResult
    /\ requests = NoRequests

NextReads ==
    \/ PullSchedule /\ UNCHANGED <<boxVars, uriVars, gameVars, listVars>>
    \/ Call /\ UNCHANGED <<boxVars, uriVars, gameVars, listVars>>
    \/ GetItem /\ UNCHANGED <<boxVars, uriVars, gameVars, listVars>>
    \/ LenOp /\ UNCHANGED <<boxVars, uriVars, gameVars, listVars>>
    \/ IterOp /\ UNCHANGED <<boxVars, uriVars, gameVars, listVars>>
    \/ BuildGame
    \/ ReadGame
    \/ Build
    \/ ReadText
    \/ ReadAttendance
    \/ ReadInt
    \/ ReadFloat
    \/ ReadAggregated
    \/ ReadSavePercentage
    \/ ReadWinner

SpecReads == InitReads /\ [][NextReads]_vars

\* C20: after construction no read operation changes state: index access,
\* date lookup (successful or failing), iteration and len leave the
\* Schedule's game sequence unchanged, and every accessor of a Game or a
\* Boxscore leaves all raw fields of the record, the away-skater and
\* away-goalie counts included, unchanged.
C20_ReadsChangeNothing ==
    [][/\ spc = "built" => games' = games
       /\ gpc = "built" => game' = game
       /\ bpc = "built" => box' = box]_vars

\* A failed date lookup, an aggregated read and a Game read have all
\* happened on built records.
C20_Witness ==
    /\ spc = "built" /\ Len(games) = 2
    /\ sres.op = "call" /\ sres.out.kind = "raise"
    /\ gpc = "built" /\ gres.op = "location"
    /\ bpc = "built" /\ bres.op = "home_saves"
    /\ box["away_skaters"] = PyInt(2)
    /\ box["away_goalies"] = PyInt(1)

-----------------------------------------------------------------------------
(* The listing scenario as a specification: Boxscores(date) is built, then  *)
(* its games property is read.                                              *)

\* Boxscores.games
ReadGames ==
    /\ lpc = "built"
    /\ lres' = [op |-> "games", out |-> Return(boxscores)]
    /\ UNCHANGED <<listing, boxscores, lpc, requests, schedVars, boxVars,
                   uriVars, gameVars>>

InitListing ==
    /\ listing \in Listings
    /\ boxscores = <<>>
    /\ lpc = "new"
    /\ lres = NoResult
    /\ doc = [regular |-> <<>>, playoffs |-> <<>>, marker |-> FALSE]
    /\ games = <<>>
    /\ spc = "idle"
    /\ sres = NoResult
    /\ uri = <<>>
    /\ fetch = "none"
    /\ page = PyNone
    /\ config = PyNone
    /\ box = PyNone
    /\ bpc = "idle"
    /\ bres = NoResult
    /\ markup = NoMarkup
    /\ ures = NoResult
    /\ game_data = PyNone
    /\ game = PyNone
    /\ gpc = "idle"
    /\ gres = NoResult
    /\ requests = NoRequests

NextListing == BuildBoxscores \/ ReadGames

SpecListing == InitListing /\ [][NextListing]_vars

\* The day's page was retrieved and every game block of it has a link.
EveryBlockHasALink ==
    /\ listing.t = "listing"
    /\ \A i \in 1..Len(listing.blocks) : Len(listing.blocks[i]) >= 1

\* C21: the day listing has exactly one entry per game block of the page, in
\* page order, each entry taking the away team from the first link of its
\* block and the home team from the last link; a page with no game block
\* gives an empty list.
C21_OneEntryPerBlockInOrder ==
    (lpc # "new" /\ EveryBlockHasALink)
        => /\ lpc = "built"
           /\ Len(boxscores) = Len(listing.blocks)
           /\ \A i \in 1..Len(boxscores) :
                 LET block == listing.blocks[i]
                     first == block[1]
                     last == block[Len(block)]
                 IN  /\ boxscores[i].away_name = first.text
                     /\ boxscores[i].away_abbr
                            = Boxscores_parse_abbreviation(first.markup)
                     /\ boxscores[i].home_name = last.text
                     /\ boxscores[i].home_abbr
                            = Boxscores_parse_abbreviation(last.markup)
           /\ lres.op = "games" => lres.out = Return(boxscores)

\* Two games on the page, the second with the teams the other way round.
C21_Witness ==
    /\ lpc = "built"
    /\ listing.blocks = <<<<Capitals, FinalLink, Knights>>,
                          <<Knights, FinalLink, Capitals>>>>
    /\ Len(boxscores) = 2
    /\ boxscores[1].away_abbr = <<"WSH">>
    /\ boxscores[1].home_name = <<"Vegas Golden Knights">>
    /\ boxscores[2].away_abbr = <<"VEG">>
    /\ boxscores[2].home_abbr = <<"WSH">>
    /\ boxscores[1].boxscore = Uri_201806070VEG
    /\ lres.op = "games"

-----------------------------------------------------------------------------
(* The field loops of the two record builders: which attributes they        *)
(* assign.                                                                  *)

\* The attributes Game.__init__ declares, in declaration order.
GameDeclaredFields ==
    <<"game", "date", "datetime", "boxscore", "location", "opponent_abbr",
      "result", "points_scored", "points_allowed", "field_goals",
      "field_goal_attempts", "field_goal_percentage",
      "three_point_field_goals", "three_point_field_goal_attempts",
      "three_point_field_goal_percentage", "free_throws",
      "free_throw_attempts", "free_throw_percentage", "offensive_rebounds",
      "total_rebounds", "assists", "steals", "blocks", "turnovers",
      "personal_fouls", "opp_field_goals", "opp_field_goal_attempts",
      "opp_field_goal_percentage", "opp_three_point_field_goals",
      "opp_three_point_field_goal_attempts",
      "opp_three_point_field_goal_percentage", "opp_free_throws",
      "opp_free_throw_attempts", "opp_free_throw_percentage",
      "opp_offensive_rebounds", "opp_total_rebounds", "opp_assists",
      "opp_steals", "opp_blocks", "opp_turnovers", "opp_personal_fouls">>

GameDeclaredFieldSet ==
    {GameDeclaredFields[i] : i \in 1..Len(GameDeclaredFields)}

\* The one field the loop of Game._parse_game_data passes over.
GameSkippedFields == {"datetime"}

IsAssignedByBoxscoreLoop(field) == field \notin SkippedFields
IsAssignedByGameLoop(field) == field \notin GameSkippedFields

\* The setattr calls of the loop of Boxscore._parse_game_data over a
\* retrieved page, in order: every branch that does not `continue` at once
\* ends in one setattr on the field at hand.
BoxscoreAssignments == SelectSeq(DeclaredFields, IsAssignedByBoxscoreLoop)

\* The setattr calls of the loop of Game._parse_game_data, in order: the
\* one of _parse_boxscore for 'boxscore', the loop's own for the rest.
GameAssignments == SelectSeq(GameDeclaredFields, IsAssignedByGameLoop)

\* How many times a sequence of assignments names a field.
TimesAssigned(assignments, field) ==
    Cardinality({i \in 1..Len(assignments) : assignments[i] = field})

-----------------------------------------------------------------------------
(* The builder scenario: a Boxscore and a Game are constructed.             *)

Uri_201806040WSH == <<"2", "0", "1", "8", "0", "6", "0", "4", "0", "W", "S", "H">>

BuilderRows ==
    {r \in GameRows : r.location = <<<<"@">>>> /\ Len(r.result) = 1}

InitBuilders ==
    /\ uri \in {Uri_201806070VEG, Uri_201806040WSH}
    /\ \/ fetch \in {"raises", "empty"} /\ page = PyNone
       \/ fetch = "page" /\ page \in BoxscorePages
    /\ config = [date |-> 0, time |-> 0, attendance |-> 1, arena |-> 2,
                 duration |-> 3]
    /\ box = PyNone
    /\ bpc = "new"
    /\ bres = NoResult
    /\ doc = [regular |-> <<>>, playoffs |-> <<>>, marker |-> FALSE]
    /\ games = <<>>
    /\ spc = "idle"
    /\ sres = NoResult
    /\ markup = NoMarkup
    /\ ures = NoResult
    /\ game_data \in BuilderRows
    /\ game = PyNone
    /\ gpc = "new"
    /\ gres = NoResult
    /\ listing = PyNone
    /\ boxscores = <<>>
    /\ lpc = "idle"
    /\ lres = NoResult
    /\ requests = NoRequests

NextBuilders == Build \/ BuildGame

SpecBuilders == InitBuilders /\ [][NextBuilders]_vars

\* The page the constructor retrieved is one the field loop runs over.
PageRetrieved == ~IsFalsy(RetrieveHtmlPage(fetch, page))

\* C22: the field loop of a record builder never assigns a derived or
\* identifier field. After a Boxscore is built from a retrieved page its
\* uri is the caller's argument and its raw winner, winning_name,
\* winning_abbr, losing_name and losing_abbr are still None; after a Game
\* is built its raw datetime is still None; every other declared field has
\* been assigned exactly once, with the value parsed for it.
C22_LoopSkipsDerivedFields ==
    /\ (bpc = "built" /\ PageRetrieved) =>
          /\ box["uri"] = PyStr(uri)
          /\ \A f \in {"winner", "winning_name", "winning_abbr",
                       "losing_name", "losing_abbr"} : box[f] = PyNone
          /\ \A f \in DeclaredFieldSet :
                IF f \in {"uri", "winner", "winning_name", "winning_abbr",
                          "losing_name", "losing_abbr"}
                THEN TimesAssigned(BoxscoreAssignments, f) = 0
                ELSE /\ TimesAssigned(BoxscoreAssignments, f) = 1
                     /\ box[f] = ParseBoxscoreField(f, page, config).value
    /\ gpc = "built" =>
          /\ game._datetime = PyNone
          /\ \A f \in GameDeclaredFieldSet :
                TimesAssigned(GameAssignments, f)
                    = IF f = "datetime" THEN 0 ELSE 1
          /\ game._date = PyStr(ParseField(game_data.date, 0).value)
          /\ game._boxscore = PyStr(Game_parse_boxscore(game_data.box))
          /\ game._location = PyStr(ParseField(game_data.location, 0).value)
          /\ game._result = PyStr(ParseField(game_data.result, 0).value)

\* Both records are built, the Boxscore from a retrieved page of the second
\* uri.
C22_Witness ==
    /\ bpc = "built" /\ PageRetrieved
    /\ uri = Uri_201806040WSH
    /\ box["uri"] = PyStr(Uri_201806040WSH)
    /\ box["away_goals"] = PyStr(<<"4">>)
    /\ box["winner"] = PyNone
    /\ gpc = "built"
    /\ game._datetime = PyNone
    /\ game._date = PyStr(Date_Wed_Oct_18_2017)

\* The coerced goals of both sides are integers.
GoalsKnown(b) ==
    /\ IntProperty(b["home_goals"]).value.t = "int"
    /\ IntProperty(b["away_goals"]).value.t = "int"

\* The home side has strictly more goals than the away side.
HomeOutscores(b) ==
    IntProperty(b["home_goals"]).value.v > IntProperty(b["away_goals"]).value.v

AggregatedPairs ==
    {<<"away_game_winning_goals", "home_game_winning_goals">>,
     <<"away_even_strength_assists", "home_even_strength_assists">>,
     <<"away_power_play_assists", "home_power_play_assists">>,
     <<"away_short_handed_assists", "home_short_handed_assists">>,
     <<"away_saves", "home_saves">>,
     <<"away_shutout", "home_shutout">>}

\* C24: for every cell list and every split point N >= 0 (N larger than
\* the list length included), the away and the home aggregate computed from
\* the same list with the same N partition the list: the away slice followed
\* by the home slice is the list itself, so each cell is counted by exactly
\* one side, and the away sum plus the home sum is the sum of all
\* integer-parsable cells of the list.
C24_AwayAndHomePartitionTheList ==
    bpc = "built" =>
        \A pair \in AggregatedPairs :
            LET away == pair[1]
                home == pair[2]
                cells == box[away].v
                n == SplitIndex(away, box["away_skaters"].v,
                                box["away_goalies"].v)
                total == SumOfCellsAt(cells, 1..Len(cells))
            IN  (/\ box[home].v = cells
                 /\ SplitIndex(home, box["away_skaters"].v,
                               box["away_goalies"].v) = n) =>
                    /\ ValueSubset(away, cells, n)
                           \o ValueSubset(home, cells, n) = cells
                    /\ NhlIntProperty(box, away).value.v
                           + NhlIntProperty(box, home).value.v = total
                    /\ bres.op = away =>
                          bres.out.value.v
                              = total - NhlIntProperty(box, home).value.v
                    /\ bres.op = home =>
                          bres.out.value.v
                              = total - NhlIntProperty(box, away).value.v

\* A two-cell list split at 3, beyond its end: the away side has counted
\* both cells and the home aggregate that was read is 0.
C24_Witness ==
    /\ bpc = "built"
    /\ box["away_game_winning_goals"].v = <<<<"1">>, <<"2">>>>
    /\ box["home_game_winning_goals"].v = <<<<"1">>, <<"2">>>>
    /\ box["away_skaters"].v = 3
    /\ NhlIntProperty(box, "away_game_winning_goals") = Return(PyInt(3))
    /\ bres.op = "home_game_winning_goals"
    /\ bres.out = Return(PyInt(0))

\* made / opportunity rounded to thousandths, 0.0 on a zero opportunity.
PercentageOf(made, opportunity) ==
    IF opportunity = 0 THEN PyFloat(0)
    ELSE PyFloat(RoundedRatio(made, opportunity))

\* The record b with other cells captured for the two save-percentage
\* fields.
WithSavePercentageCells(b, cells) ==
    [b EXCEPT !["away_save_percentage"] = cells,
              !["home_save_percentage"] = cells]

\* C25: each side's save percentage is computed across sides:
\* away_save_percentage divides the away side's aggregated saves by the home
\* side's shots on goal, home_save_percentage divides the home side's
\* aggregated saves by the away side's shots on goal, and the raw
\* save-percentage cell list captured by the builder is used by neither.
C25_SavePercentageAcrossSides ==
    bpc = "built" =>
        /\ (/\ bres.op = "away_save_percentage"
            /\ NhlIntProperty(box, "away_saves").kind = "return"
            /\ IntProperty(box["home_shots_on_goal"]).value.t = "int") =>
               bres.out = Return(PercentageOf(
                   NhlIntProperty(box, "away_saves").value.v,
                   IntProperty(box["home_shots_on_goal"]).value.v))
        /\ (/\ bres.op = "home_save_percentage"
            /\ NhlIntProperty(box, "home_saves").kind = "return"
            /\ IntProperty(box["away_shots_on_goal"]).value.t = "int") =>
               bres.out = Return(PercentageOf(
                   NhlIntProperty(box, "home_saves").value.v,
                   IntProperty(box["away_shots_on_goal"]).value.v))
        /\ \A name \in SavePercentageAccessors :
              \A cells \in {PyNone, PyList(<<>>), PyList(<<<<"9">>, <<"9">>>>),
                            PyList(<<<<".", "9", "1", "7">>>>)} :
                  Accessor(WithSavePercentageCells(box, cells), name)
                      = Accessor(box, name)

\* 5 home saves against 3 away shots read as 1.667 while the captured
\* save-percentage cells hold something else.
C25_Witness ==
    /\ bpc = "built"
    /\ box["home_save_percentage"]
           = PyList(<<<<"1">>, <<>>, <<"2">>, <<>>, <<"3">>>>)
    /\ NhlIntProperty(box, "home_saves") = Return(PyInt(5))
    /\ IntProperty(box["away_shots_on_goal"]).value = PyInt(3)
    /\ IntProperty(box["home_shots_on_goal"]).value = PyInt(0)
    /\ bres.op = "home_save_percentage"
    /\ bres.out = Return(PyFloat(1667))

=============================================================================
